---- MODULE Spec2Model ----
(***************************************************************************)
(* Model of the text-to-speech provider manager (TtsProviderManager):      *)
(* the provider registry, the active provider, the speech queue and the    *)
(* drain loop (processQueue) with its fallback to the native provider.     *)
(*                                                                         *)
(* JavaScript runs each handler to its next `await`; every action below    *)
(* is one such run: a public method up to its first suspension, or the     *)
(* continuation of a suspended call after the awaited promise settled.     *)
(***************************************************************************)
EXTENDS Integers, Sequences, FiniteSets, TLC

\* ---------------------------------------------------------------- bounds
\* number of speak() calls issued in one behaviour (stop() may interleave)
MaxReq == 2
\* number of speak() calls issued in one behaviour in which stop() is not called
MaxReqNoStop == 3
\* number of stop() calls issued in one behaviour
MaxStops == 1
\* number of usage updates (both vendors together) in one behaviour
MaxUpdates == 3
\* number of month boundaries crossed in one behaviour
MaxMonths == 1
\* number of speak() calls made on the backends directly
MaxCalls == 2
\* number of stop() calls made on the backends directly
MaxBackendStops == 2
\* number of getVoices() calls made on the backends directly
MaxGetVoices == 3
\* number of credential updates of the backends
MaxKeyUpdates == 1

\* bound on the playTts() calls made while TTS is disabled
MaxGated == 2

\* ------------------------------------------------------- program values
\* type TtsProviderType = "native" | "google-cloud" | "azure"
TtsProviderType == {"native", "google-cloud", "azure"}

\* `undefined` for an optional voice / speed
NoVoice == "undefined"

\* a voice id of each provider's own voice list; voice ids are scoped to the
\* provider that lists them
VoiceOf ==
    [ p \in TtsProviderType |->
        CASE p = "native"       -> "voice-native-1"
          [] p = "google-cloud" -> "voice-google-1"
          [] p = "azure"        -> "voice-azure-1" ]

\* voice ids handed to setVoice() and setVoiceForProvider()
Voices == { VoiceOf[p] : p \in TtsProviderType }

\* the provider whose voice list holds voice id v
OwnerOf(v) == CHOOSE p \in TtsProviderType : VoiceOf[p] = v

\* (text, options) pairs handed to speak()
SpeakInputs ==
    { [text |-> "a", voice |-> NoVoice, speed |-> 1],
      [text |-> "b", voice |-> "y",     speed |-> 2] }

\* speak(text) without options
PlainInputs == { [text |-> "a", voice |-> NoVoice, speed |-> 1] }

\* type GoogleCloudTtsModelType
GoogleCloudTtsModelType ==
    {"wavenet", "studio", "standard", "neural2", "polyglot", "chirp3Hd",
     "instantCustom"}

\* type AzureTtsTier
AzureTtsTier == {"F0", "S0"}

\* type AzureTtsVoiceType
AzureTtsVoiceType == {"neural", "neuralHd", "custom"}

\* PRICING mutant: studio priced like neural2
PRICING_StudioCheap ==
    [ m \in GoogleCloudTtsModelType |->
        CASE m \in {"wavenet", "standard"} -> 4
          [] m \in {"neural2", "polyglot", "studio"} -> 16
          [] m = "chirp3Hd" -> 30
          [] m = "instantCustom" -> 60 ]

\* PRICING: price of one character, in millionths of a USD (0.000004 USD is
\* 4); a cost below is in millionths of a USD as well
PRICING ==
    [ m \in GoogleCloudTtsModelType |->
        CASE m = "wavenet"       -> 4
          [] m = "studio"        -> 160
          [] m = "standard"      -> 4
          [] m = "neural2"       -> 16
          [] m = "polyglot"      -> 16
          [] m = "chirp3Hd"      -> 30
          [] m = "instantCustom" -> 60 ]

\* FREE_TIER: free characters per month
FREE_TIER ==
    [ m \in GoogleCloudTtsModelType |->
        CASE m = "wavenet"       -> 4000000
          [] m = "studio"        -> 1000000
          [] m = "standard"      -> 4000000
          [] m = "neural2"       -> 1000000
          [] m = "polyglot"      -> 1000000
          [] m = "chirp3Hd"      -> 1000000
          [] m = "instantCustom" -> 0 ]

\* AZURE_PRICING mutant: HD voices priced like standard neural voices
AZURE_PRICING_HdCheap ==
    [ t \in AzureTtsVoiceType |->
        CASE t \in {"neural", "neuralHd"} -> 15
          [] t = "custom" -> 24 ]

\* AZURE_PRICING: S0 price of one character, in millionths of a USD
AZURE_PRICING ==
    [ t \in AzureTtsVoiceType |->
        CASE t = "neural"   -> 15
          [] t = "neuralHd" -> 30
          [] t = "custom"   -> 24 ]

\* free characters per month of tier F0
AZURE_F0_FREE_LIMIT == 500000

\* charactersUsed arguments of the cost functions
CharCounts == {0, 1, 100000, 250000, 500000, 1000000, 2000000, 5000000}

\* currentUsage arguments of the cost functions
PriorUsages ==
    {0, 450000, 499999, 500000, 600000, 1000000, 3000000, 3999999, 4000000,
     5000000}

\* charactersUsed arguments of the usage updates
UsageAmounts == {50, 100}

\* text.length of the texts whose cost is tracked
TrackCounts == {1, 250000, 500000}

\* charactersUsed of the requests priced one after the other
SplitCounts == {0, 1, 10, 500000, 1000000}

\* `undefined` passed as the usage ledger
NoUsage == [ defined |-> FALSE ]

\* no cost function has been called
NoCost == [ fn |-> "none" ]

\* no voice name has been classified
NoDetect == [ fn |-> "none" ]

\* no usage update has been called
NoUpdate == [ fn |-> "none" ]

\* no drain loop owned by this speak() call
NoLoop == [phase |-> "none", item |-> "none", provider |-> "none", killed |-> FALSE]

\* no setActiveProvider() call is suspended
NoSwitch == [pc |-> "idle", target |-> "native", configured |-> FALSE]

\* no isProviderConfigured(), getVoicesForProvider() or validateProvider()
\* call has been made
NoDirect == [fn |-> "none", p |-> "native", phase |-> "idle", detached |-> FALSE]

\* where a direct call is suspended: on isConfigured() (with the value its
\* promise holds), on the inventory request of getVoices(), on the request
\* of validateConfiguration()
DirectPending == {"configured", "unconfigured", "fetch", "validate"}

\* how a direct call fails: Error(`Provider ... is not configured`),
\* Error(`Provider ... is not properly configured`), the error of the backend
DirectFailed == {"unregistered", "misconfigured", "rejected"}

\* no synthesizeChunkWithRetry() call has been made
NoChunk == [phase |-> "idle", attempt |-> 0, requests |-> 0, delays |-> << >>,
            error |-> "none"]

\* default of the parameter maxRetries of synthesizeChunkWithRetry()
maxRetries == 5

\* error.response.status of a failed request, 0 for undefined (no response)
HttpStatuses == {0, 400, 401, 403, 404, 429, 500, 502, 503, 504}

\* error.code of a failed request
ErrorCodes == {"undefined", "ERR_BAD_REQUEST", "ECONNRESET", "ETIMEDOUT", "ENOTFOUND"}

\* what `await axios.post(url, request)` does: it resolves with audioContent,
\* resolves without it, or rejects with an error
PostOutcomes ==
    { [kind |-> "audio", status |-> 200, code |-> "undefined"],
      [kind |-> "empty", status |-> 200, code |-> "undefined"] }
    \cup { [kind |-> "error", status |-> s, code |-> c] :
               s \in HttpStatuses, c \in ErrorCodes }

ReqIds == 1..(IF MaxReq > MaxReqNoStop THEN MaxReq ELSE MaxReqNoStop)

\* the backend classes: NativeTtsProvider, GoogleCloudTtsProvider and the two
\* AzureTtsProvider classes (speech SDK, REST)
BackendImpl == {"native", "google-cloud", "azure-sdk", "azure-rest"}

\* the backends that hold credentials
CloudImpl == BackendImpl \ {"native"}

CallIds == 1..MaxCalls

\* a speak() call that has not been made
NoCall == [ backend |-> "none", phase |-> "none", onStart |-> 0, onStop |-> 0,
           killed |-> FALSE ]

\* no successful fetch has completed
NoFetch == [ ok |-> FALSE, list |-> << >> ]

\* getVoices() has not been called
NoVoices == [ backend |-> "none", fetch |-> FALSE, result |-> << >> ]

\* a voice name of the inventory that has a locale prefix, and one without
LocaleVoice == << "e", "n", "-", "U", "S", "-", "S", "t", "a", "n",
                  "d", "a", "r", "d", "-", "A" >>

BareVoice == << "A", "c", "h", "e", "r", "n", "a", "r" >>

\* the default voice of NativeTtsProvider
DefaultVoice == << "d", "e", "f", "a", "u", "l", "t" >>

\* the voice lists an inventory request returns
FetchedLists ==
    { << >>, << LocaleVoice >>, << BareVoice >>, << BareVoice, LocaleVoice >> }

\* the outcomes of an inventory request: failure, or one of the lists
FetchOutcomes ==
    { [ ok |-> FALSE, list |-> << >> ] }
        \cup { [ ok |-> TRUE, list |-> l ] : l \in FetchedLists }

\* the outcomes of the inventory request that speak() makes
SpeakFetchOutcomes ==
    { o \in FetchOutcomes : o.list \in { << >>, << LocaleVoice >> } }

VARIABLES
    providers,          \* keys of the providers map
    hasKey,             \* per provider type: its instance holds truthy credentials
    activeProviderType, \* this.activeProviderType
    currentVoice,       \* this.currentVoice
    perBackendVoice,    \* voice stored per provider by setVoiceForProvider()
    queue,              \* this.queue: items not yet shifted
    isProcessing,       \* this.isProcessing
    calls,              \* state of the promise returned by each speak() call
    loops,              \* the processQueue() activation owned by each speak()
    switchCall,         \* a setActiveProvider() call suspended on isConfigured()
    direct,             \* the last isProviderConfigured(), getVoicesForProvider()
                        \* or validateProvider() call: where it is suspended or
                        \* how it settled; detached: the instance it runs on
                        \* is no longer the one in the map
    nextReq,            \* number of speak() calls issued so far
    enqueued,           \* history: request ids in the order they were pushed
    dispatched,         \* history: every provider.speak() call started
    settled,            \* history: requests whose backend calls have settled
    orphans,            \* history: requests queued when the active provider was removed
    stops,              \* history: number of stop() calls so far
    lastSelected,       \* history: per provider, the voice last selected for it
                        \* (setVoice() while it is active, setVoiceForProvider())
    now,                \* new Date(): year and month (getMonth(), 0..11)
    googleUsage,        \* the GoogleCloudTtsUsage ledger the caller holds
    azureUsage,         \* the AzureTtsUsage ledger the caller holds
    costDetails,        \* the last cost function call and what it returned
    detected,           \* the last voice name classified and its class
    lastUpdate,         \* the last usage update call: whether the ledger
                        \* object passed in is after the call as it was
                        \* before, whether the one returned is another object
    updates,            \* history: number of usage updates so far
    months,             \* history: number of month boundaries crossed so far
    pcall,              \* per speak() call on a backend: the backend, where
                        \* the call is suspended, how often it has invoked
                        \* onStart and onStop, whether its process was killed
    handle,             \* per backend: the call that owns sayInstance,
                        \* currentAudio or synthesizer, 0 for undefined
    currentOnStop,      \* NativeTtsProvider.currentOnStop: the call whose
                        \* onStop it holds, 0 for undefined
    isPlaying,          \* AzureTtsProvider.isPlaying (SDK)
    cachedVoices,       \* per backend: cachedVoices, a list of voice ids
    fetching,           \* per backend: getVoices() calls suspended on a fetch
    stopSeen,           \* history: calls with onStart invoked and onStop not
                        \* yet invoked when stop() was called on their backend
    lastFetched,        \* history: per backend, the list cached by the last
                        \* fetch completed since its credentials were updated
    updatedSince,       \* history: per backend, credentials were updated and
                        \* getVoices() has not been called since
    lastVoices,         \* history: the last getVoices() call, whether it
                        \* started a fetch and the list it returned at once
    backendStops,       \* history: number of backend stop() calls so far
    getVoicesCalls,     \* history: number of getVoices() calls so far
    keyUpdates,         \* history: number of credential updates so far
    priced,             \* history: the last pricing of a request and, when it
                        \* was for the same model, the one before it
    isTtsEnabled,       \* tts.ts: isTtsEnabled
    speed,              \* tts.ts: speed
    gated,              \* history: playTts() calls that returned at the gate
    chunk               \* the last synthesizeChunkWithRetry() call: where it
                        \* is suspended, its loop counter, the requests it
                        \* has sent, the delays it has waited, its outcome

\* the provider manager
mgrVars == << providers, hasKey, activeProviderType, currentVoice,
              perBackendVoice, queue, isProcessing,
              calls, loops, switchCall, direct, nextReq, enqueued, dispatched,
              settled, orphans, stops, lastSelected >>

\* the cost tracking
costVars == << now, googleUsage, azureUsage, costDetails, detected, lastUpdate,
              updates, months >>

\* the speak() calls on the backends and the backends' playback fields
callVars == << pcall, handle, currentOnStop, isPlaying, stopSeen, backendStops >>

\* the getVoices() calls on the backends
fetchVars == << fetching, lastFetched, updatedSince, lastVoices, getVoicesCalls,
               keyUpdates >>

\* the backends
provVars == << callVars, cachedVoices, fetchVars >>

\* the wrappers around the manager and the backends' requests
auxVars == << chunk, priced, isTtsEnabled, speed, gated >>

vars == << mgrVars, costVars, provVars, auxVars >>

\* ------------------------------------------------------------- helpers

\* constructor(credentials?): native always, cloud providers by credentials
ConstructorProviders(hasGoogle, hasAzure) ==
    {"native"} \cup (IF hasGoogle THEN {"google-cloud"} ELSE {})
               \cup (IF hasAzure THEN {"azure"} ELSE {})

\* isConfigured(): native returns true, the cloud providers return
\* !!apiKey (Google) or !!(apiKey && region) (Azure)
IsConfigured(p, keys) == IF p = "native" THEN TRUE ELSE keys[p]

\* getActiveProvider() mutant: no fallback to native when the entry is missing
GetActiveProviderUnchecked(active, provs) == active

\* getActiveProvider(): type of the provider returned; the same value is
\* left in activeProviderType
GetActiveProvider(active, provs) ==
    IF active \in provs THEN active ELSE "native"

\* one entry of the dispatch history: a provider.speak() call was started
\* for request r; kind is "primary" (line 271) or "fallback" (line 287)
DispatchRec(r, kind) == [ req |-> r, kind |-> kind ]

\* a processQueue() activation suspended on provider.speak(item...) of
\* provider p; killed: the provider's stop() ran while the call was in flight
InFlight(kind, item, p) ==
    [ phase |-> kind, item |-> item, provider |-> p, killed |-> FALSE ]

QueueIds(q) == { q[i].req : i \in 1..Len(q) }

\* ---------------------------------------------------------------- Init

\* state after `new TtsProviderManager(credentials)`
Init ==
    /\ \E hasGoogle \in BOOLEAN, hasAzure \in BOOLEAN :
          /\ providers = ConstructorProviders(hasGoogle, hasAzure)
          /\ hasKey = [p \in TtsProviderType |->
                          p \in ConstructorProviders(hasGoogle, hasAzure)]
    /\ activeProviderType = "native"
    /\ currentVoice = NoVoice
    /\ perBackendVoice = [p \in TtsProviderType |-> NoVoice]
    /\ lastSelected = [p \in TtsProviderType |-> NoVoice]
    /\ now = [year |-> 2025, month |-> 11]
    /\ googleUsage = NoUsage
    /\ azureUsage = NoUsage
    /\ costDetails = NoCost
    /\ lastUpdate = NoUpdate
    /\ detected = NoDetect
    /\ pcall = [c \in CallIds |-> NoCall]
    /\ handle = [b \in BackendImpl |-> 0]
    /\ currentOnStop = 0
    /\ isPlaying = FALSE
    /\ cachedVoices = [b \in BackendImpl |-> << >>]
    /\ fetching = [b \in BackendImpl |-> 0]
    /\ stopSeen = {}
    /\ lastFetched = [b \in BackendImpl |-> NoFetch]
    /\ updatedSince = [b \in BackendImpl |-> FALSE]
    /\ lastVoices = NoVoices
    /\ backendStops = 0
    /\ getVoicesCalls = 0
    /\ keyUpdates = 0
    /\ updates = 0
    /\ months = 0
    /\ queue = << >>
    /\ isProcessing = FALSE
    /\ calls = [r \in ReqIds |-> "unused"]
    /\ loops = [r \in ReqIds |-> NoLoop]
    /\ switchCall = NoSwitch
    /\ direct = NoDirect
    /\ nextReq = 0
    /\ enqueued = << >>
    /\ dispatched = << >>
    /\ settled = {}
    /\ orphans = [r \in ReqIds |-> "no"]
    /\ stops = 0
    /\ chunk = NoChunk
    /\ priced = << >>
    /\ isTtsEnabled = FALSE
    /\ speed = 1
    /\ gated = 0

\* ------------------------------------------------------- registry actions

\* updateCredentials mutant: the credentials are not looked at
UpdateRegistersAlways(p, sufficient) == p # "native"

\* does updateCredentials(p, credentials) carry what provider p needs
\* (lines 51 and 68); native needs nothing and is never touched
UpdateRegisters(p, sufficient) == p # "native" /\ sufficient

\* the class of the instance the manager constructs for a provider type
\* (lines 2-4, 26, 30, 34, 55, 71)
ManagerImpl(p) == IF p = "azure" THEN "azure-sdk" ELSE p

\* the providers map and the fields of the instances it holds
RegistryState ==
    [ providers    |-> providers,
      hasKey       |-> hasKey,
      cachedVoices |-> cachedVoices,
      handle       |-> handle,
      fetching     |-> fetching ]

\* updateCredentials(providerType, credentials) applied to registry R, lines
\* 49-82: with what the provider needs, an instance found in the map is
\* updated by setApiKey() / setCredentials(), which clear its voice cache
\* (and, for Azure, its synthesizer); if none is found a new instance, with
\* no voices cached and no request in flight, is put into the map
updateCredentials(R, p, sufficient) ==
    LET b == ManagerImpl(p)
    IN  IF ~UpdateRegisters(p, sufficient)
           THEN R
           ELSE IF p \in R.providers
                   THEN [R EXCEPT !.hasKey[p] = TRUE,
                                  !.cachedVoices[b] = << >>,
                                  !.handle[b] = IF b = "azure-sdk" THEN 0 ELSE @]
                   ELSE [R EXCEPT !.providers = @ \cup {p},
                                  !.hasKey[p] = TRUE,
                                  !.cachedVoices[b] = << >>,
                                  !.handle[b] = 0,
                                  !.fetching[b] = 0]

\* updateCredentials(providerType, credentials): no await inside
UpdateCredentials(p, sufficient) ==
    /\ UNCHANGED << activeProviderType, currentVoice, perBackendVoice,
                    lastSelected, queue, isProcessing, calls, loops,
                    switchCall, nextReq, enqueued, dispatched, settled,
                    orphans, stops, costVars, auxVars, pcall, currentOnStop, isPlaying,
                    stopSeen, backendStops, lastFetched, updatedSince,
                    lastVoices, getVoicesCalls, keyUpdates >>
    /\ direct' = IF /\ UpdateRegisters(p, sufficient)
                    /\ p \notin providers
                    /\ direct.p = p
                    /\ direct.phase \in DirectPending
                    THEN [direct EXCEPT !.detached = TRUE] ELSE direct
    /\ LET R == updateCredentials(RegistryState, p, sufficient)
       IN  /\ providers' = R.providers
           /\ hasKey' = R.hasKey
           /\ cachedVoices' = R.cachedVoices
           /\ handle' = R.handle
           /\ fetching' = R.fetching

\* removeProvider mutant: the native guard of line 89 is missing
RemoveKeepsNoGuard(p) == FALSE

\* removeProvider line 89: the native provider is always kept
RemoveKeeps(p) == p = "native"

\* removeProvider(providerType)
RemoveProvider(p) ==
    /\ providers' = IF RemoveKeeps(p) THEN providers ELSE providers \ {p}
    /\ hasKey' = IF RemoveKeeps(p) THEN hasKey ELSE [hasKey EXCEPT ![p] = FALSE]
    /\ activeProviderType' =
          IF ~RemoveKeeps(p) /\ activeProviderType = p
             THEN "native" ELSE activeProviderType
    /\ orphans' =
          IF ~RemoveKeeps(p) /\ activeProviderType = p
             THEN [r \in ReqIds |->
                     IF r \in QueueIds(queue) THEN "fresh" ELSE orphans[r]]
             ELSE orphans
    /\ UNCHANGED << currentVoice, perBackendVoice, lastSelected, queue,
                    isProcessing, calls, loops, switchCall, nextReq, enqueued,
                    dispatched, settled, stops, direct,
                    costVars, provVars, auxVars >>

\* setActiveProvider mutant: the assignment of line 124 made before the checks
SwitchCommitEager(cur, p, found, configured) == p

\* setActiveProvider lines 108-124: the value of activeProviderType after the
\* lookup (found) and the isConfigured() check (configured)
SwitchCommit(cur, p, found, configured) ==
    IF found /\ configured THEN p ELSE cur

\* setActiveProvider(providerType) up to `await provider.isConfigured()`:
\* throws when the provider is not in the map; otherwise isConfigured() has
\* run on the instance found and the call is suspended on its promise
SetActiveStart(p) ==
    /\ switchCall.pc # "awaiting"
    /\ IF p \notin providers
          THEN /\ switchCall' = [NoSwitch EXCEPT !.pc = "rejected"]
               /\ activeProviderType' =
                     SwitchCommit(activeProviderType, p, FALSE, FALSE)
          ELSE /\ switchCall' = [pc |-> "awaiting", target |-> p,
                                 configured |-> IsConfigured(p, hasKey)]
               /\ UNCHANGED activeProviderType
    /\ UNCHANGED << providers, hasKey, currentVoice, perBackendVoice,
                    lastSelected, queue, isProcessing, calls, loops, nextReq,
                    enqueued, dispatched, settled, orphans, stops, direct,
                    costVars, provVars, auxVars >>

\* setActiveProvider after the await (lines 117-125)
SetActiveResume ==
    /\ switchCall.pc = "awaiting"
    /\ activeProviderType' =
          SwitchCommit(activeProviderType, switchCall.target, TRUE,
                       switchCall.configured)
    /\ switchCall' = [NoSwitch EXCEPT
                        !.pc = IF switchCall.configured THEN "resolved"
                                                        ELSE "rejected"]
    /\ orphans' = IF switchCall.configured
                     THEN [r \in ReqIds |->
                             IF orphans[r] = "fresh" THEN "stale" ELSE orphans[r]]
                     ELSE orphans
    /\ UNCHANGED << providers, hasKey, currentVoice, perBackendVoice,
                    lastSelected, queue, isProcessing, calls, loops, nextReq,
                    enqueued, dispatched, settled, stops, direct,
                    costVars, provVars, auxVars >>

\* setVoice(voiceId)
SetVoice(v) ==
    /\ currentVoice' = v
    /\ lastSelected' = [lastSelected EXCEPT ![activeProviderType] = v]
    /\ UNCHANGED << providers, hasKey, activeProviderType, perBackendVoice,
                    queue, isProcessing, calls, loops, switchCall, nextReq,
                    enqueued, dispatched, settled, orphans, stops, direct,
                    costVars, provVars, auxVars >>

\* setVoiceForProvider() mutant: the current voice follows every stored voice
StoredVoiceCurrentAlways(cur, active, p, v) == v

\* setVoiceForProvider(): the current voice follows a voice stored for the
\* active provider only
StoredVoiceCurrent(cur, active, p, v) == IF p = active THEN v ELSE cur

\* setVoiceForProvider(providerType, voiceId)
SetVoiceForProvider(p, v) ==
    /\ perBackendVoice' = [perBackendVoice EXCEPT ![p] = v]
    /\ lastSelected' = [lastSelected EXCEPT ![p] = v]
    /\ currentVoice' = StoredVoiceCurrent(currentVoice, activeProviderType, p, v)
    /\ UNCHANGED << providers, hasKey, activeProviderType, queue,
                    isProcessing, calls, loops, switchCall, nextReq, enqueued,
                    dispatched, settled, orphans, stops, direct,
                    costVars, provVars, auxVars >>

\* getVoiceForProvider(providerType)
GetVoiceForProvider(p) == perBackendVoice[p]

\* ------------------------------------------------------------ drain loop

\* speak() mutant: the voice is left as the caller gave it, to be resolved
\* when the item is played
ItemVoiceUnresolved(optVoice, cur) == optVoice

\* speak() lines 216-218: the voice of the queued item
ItemVoice(optVoice, cur) == IF optVoice = NoVoice THEN cur ELSE optVoice

\* speak() mutant: the item is put at the head of the queue
EnqueueFront(q, item) == << item >> \o q

\* speak() line 220: this.queue.push({ text, options })
Enqueue(q, item) == Append(q, item)

\* processQueue() mutant: the guard returns whenever it is reached
DrainRefusedAlways(processing, q) == TRUE

\* processQueue() line 252: the guard that returns without draining
DrainRefused(processing, q) == processing \/ Len(q) = 0

\* processQueue() mutant: the flag is left as it was when the loop is left
FinallyFlagKept(proc) == proc

\* processQueue() lines 298-300: `finally { this.isProcessing = false }`
FinallyFlag(proc) == FALSE

\* processQueue() lines 260-271 and 298-300, run by the loop of call r from
\* the top of `while` with queue q and flag value proc: either shift the head,
\* resolve the active provider and start provider.speak() on it (the loop is
\* then suspended on that promise), or leave the loop through `finally` and
\* resolve speak()
LoopTop(r, q, proc) ==
    IF Len(q) > 0
       THEN LET item == Head(q)
                p    == GetActiveProvider(activeProviderType, providers)
            IN  /\ queue' = Tail(q)
                /\ activeProviderType' = p
                /\ loops' = [loops EXCEPT ![r] = InFlight("primary", item, p)]
                /\ dispatched' = Append(dispatched,
                                        DispatchRec(item.req, "primary"))
                /\ calls' = [calls EXCEPT ![r] = "pending"]
                /\ orphans' = [orphans EXCEPT ![item.req] = "no"]
                /\ isProcessing' = proc
       ELSE /\ queue' = q
            /\ isProcessing' = FinallyFlag(proc)
            /\ loops' = [loops EXCEPT ![r] = NoLoop]
            /\ calls' = [calls EXCEPT ![r] = "resolved"]
            /\ UNCHANGED << activeProviderType, dispatched, orphans >>

\* an exception leaves processQueue(): `finally` runs and speak() rejects
LoopThrows(r) ==
    /\ isProcessing' = FinallyFlag(isProcessing)
    /\ loops' = [loops EXCEPT ![r] = NoLoop]
    /\ calls' = [calls EXCEPT ![r] = "rejected"]
    /\ UNCHANGED << queue, activeProviderType, dispatched, orphans >>

\* speak(text, options): push the item, then processQueue() up to its first
\* suspension (it returns at once when a loop is draining, else it sets the
\* flag and enters the loop); the call is the nextReq+1-th one of at most max
Speak(in, max) ==
    /\ nextReq < max
    /\ LET r    == nextReq + 1
           item == [req |-> r, text |-> in.text,
                    voice |-> ItemVoice(in.voice, currentVoice),
                    speed |-> in.speed]
           q    == Enqueue(queue, item)
       IN  /\ nextReq' = r
           /\ enqueued' = Append(enqueued, r)
           /\ IF DrainRefused(isProcessing, q)
                 THEN /\ queue' = q
                      /\ calls' = [calls EXCEPT ![r] = "resolved"]
                      /\ UNCHANGED << isProcessing, loops, activeProviderType,
                                      dispatched, orphans >>
                 ELSE LoopTop(r, q, TRUE)
    /\ UNCHANGED << providers, hasKey, currentVoice, perBackendVoice,
                    lastSelected, switchCall, settled, stops, direct,
                    costVars, provVars, auxVars >>

\* the awaited provider.speak() of line 271 resolves: next loop iteration
PrimaryResolves(r) ==
    /\ loops[r].phase = "primary"
    /\ settled' = settled \cup {loops[r].item.req}
    /\ LoopTop(r, queue, isProcessing)
    /\ UNCHANGED << providers, hasKey, currentVoice, perBackendVoice,
                    lastSelected, switchCall, nextReq, enqueued, stops,
                    direct,
                    costVars, provVars, auxVars >>

\* catch block mutant: the fallback branch is never taken
NeedsFallbackNever(active) == FALSE

\* catch block line 282: fall back unless the active provider is native
NeedsFallback(active) == active # "native"

\* the awaited provider.speak() of line 271 rejects: the catch block runs;
\* it starts nativeProvider.speak() with the same item and suspends on it
\* (line 287), or goes on to the next iteration
PrimaryRejects(r) ==
    /\ loops[r].phase = "primary"
    /\ IF NeedsFallback(activeProviderType) /\ "native" \in providers
          THEN /\ loops' = [loops EXCEPT ![r] =
                      InFlight("fallback", loops[r].item, "native")]
               /\ dispatched' = Append(dispatched,
                      DispatchRec(loops[r].item.req, "fallback"))
               /\ UNCHANGED << queue, isProcessing, calls, activeProviderType,
                               settled, orphans >>
          ELSE /\ settled' = settled \cup {loops[r].item.req}
               /\ LoopTop(r, queue, isProcessing)
    /\ UNCHANGED << providers, hasKey, currentVoice, perBackendVoice,
                    lastSelected, switchCall, nextReq, enqueued, stops,
                    direct,
                    costVars, provVars, auxVars >>

\* the awaited nativeProvider.speak() of line 287 resolves
FallbackResolves(r) ==
    /\ loops[r].phase = "fallback"
    /\ settled' = settled \cup {loops[r].item.req}
    /\ LoopTop(r, queue, isProcessing)
    /\ UNCHANGED << providers, hasKey, currentVoice, perBackendVoice,
                    lastSelected, switchCall, nextReq, enqueued, stops,
                    direct,
                    costVars, provVars, auxVars >>

\* mutant: no try/catch around the fallback call
FallbackErrorUncaught == FALSE

\* lines 286-291: the fallback call is wrapped in try/catch, its error is
\* only logged
FallbackErrorCaught == TRUE

\* the awaited nativeProvider.speak() of line 287 rejects
FallbackRejects(r) ==
    /\ loops[r].phase = "fallback"
    /\ settled' = settled \cup {loops[r].item.req}
    /\ IF FallbackErrorCaught THEN LoopTop(r, queue, isProcessing) ELSE LoopThrows(r)
    /\ UNCHANGED << providers, hasKey, currentVoice, perBackendVoice,
                    lastSelected, switchCall, nextReq, enqueued, stops,
                    direct,
                    costVars, provVars, auxVars >>

\* stop() mutant: the queue is left as it is
StopQueueKept(q) == q

\* stop() line 233: this.queue = []
StopQueue(q) == << >>

\* stop(): getActiveProvider(), provider.stop(), clear queue and flag.  The
\* provider's stop() ends a playback in progress; the promise of the
\* in-flight speak() settles later, in a step of its own
Stop ==
    /\ stops < MaxStops
    /\ stops' = stops + 1
    /\ activeProviderType' = GetActiveProvider(activeProviderType, providers)
    /\ queue' = StopQueue(queue)
    /\ isProcessing' = FALSE
    /\ loops' = [r \in ReqIds |->
                    IF /\ loops[r].phase # "none"
                       /\ loops[r].provider =
                             GetActiveProvider(activeProviderType, providers)
                       THEN [loops[r] EXCEPT !.killed = TRUE] ELSE loops[r]]
    /\ orphans' = [r \in ReqIds |->
                      IF r \in QueueIds(queue) THEN "no" ELSE orphans[r]]
    /\ UNCHANGED << providers, hasKey, currentVoice, perBackendVoice,
                    lastSelected, calls, switchCall, nextReq, enqueued,
                    dispatched, settled, direct,
                    costVars, provVars, auxVars >>

\* ---------------------------------------------------------------- Next

Next ==
    \/ \E p \in TtsProviderType, s \in BOOLEAN : UpdateCredentials(p, s)
    \/ \E p \in TtsProviderType : RemoveProvider(p)
    \/ \E p \in TtsProviderType : SetActiveStart(p)
    \/ SetActiveResume
    \/ \E in \in PlainInputs : Speak(in, MaxReq)
    \/ \E r \in ReqIds : PrimaryResolves(r)
    \/ \E r \in ReqIds : PrimaryRejects(r)
    \/ \E r \in ReqIds : FallbackResolves(r)
    \/ \E r \in ReqIds : FallbackRejects(r)
    \/ Stop

Spec == Init /\ [][Next]_vars

\* the manager when stop() is never called
NextNoStop ==
    \/ \E p \in TtsProviderType, s \in BOOLEAN : UpdateCredentials(p, s)
    \/ \E p \in TtsProviderType : RemoveProvider(p)
    \/ \E p \in TtsProviderType : SetActiveStart(p)
    \/ SetActiveResume
    \/ \E in \in PlainInputs : Speak(in, MaxReqNoStop)
    \/ \E r \in ReqIds : PrimaryResolves(r)
    \/ \E r \in ReqIds : PrimaryRejects(r)
    \/ \E r \in ReqIds : FallbackResolves(r)
    \/ \E r \in ReqIds : FallbackRejects(r)

SpecNoStop == Init /\ [][NextNoStop]_vars

\* a backend call in flight settles
Settle ==
    \E r \in ReqIds :
        \/ PrimaryResolves(r)
        \/ PrimaryRejects(r)
        \/ FallbackResolves(r)
        \/ FallbackRejects(r)

\* the manager when every backend call in flight eventually settles
SpecLive == Init /\ [][Next]_vars /\ WF_vars(Settle)

\* the manager with speak() calls that carry options and with setVoice()
\* calls that select a voice of the active provider's own list
NextVoice ==
    \/ \E p \in TtsProviderType, s \in BOOLEAN : UpdateCredentials(p, s)
    \/ \E p \in TtsProviderType : RemoveProvider(p)
    \/ \E p \in TtsProviderType : SetActiveStart(p)
    \/ SetActiveResume
    \/ SetVoice(VoiceOf[activeProviderType])
    \/ \E in \in SpeakInputs : Speak(in, MaxReq)
    \/ \E r \in ReqIds : PrimaryResolves(r)
    \/ \E r \in ReqIds : PrimaryRejects(r)
    \/ \E r \in ReqIds : FallbackResolves(r)
    \/ \E r \in ReqIds : FallbackRejects(r)
    \/ Stop

SpecVoice == Init /\ [][NextVoice]_vars

\* requests with and without a voice of their own, setVoice() and the
\* drain loop of a manager that stays on the native provider
NextItem ==
    \/ \E v \in Voices : SetVoice(v)
    \/ \E in \in SpeakInputs : Speak(in, MaxReq)
    \/ \E r \in ReqIds : PrimaryResolves(r)
    \/ \E r \in ReqIds : PrimaryRejects(r)
    \/ Stop

SpecItem == Init /\ [][NextItem]_vars

\* the registry, the active provider and the voice selection, with any voice
\* id handed to setVoice() and setVoiceForProvider()
NextVoiceStore ==
    \/ \E p \in TtsProviderType, s \in BOOLEAN : UpdateCredentials(p, s)
    \/ \E p \in TtsProviderType : RemoveProvider(p)
    \/ \E p \in TtsProviderType : SetActiveStart(p)
    \/ SetActiveResume
    \/ \E v \in Voices : SetVoice(v)
    \/ \E p \in TtsProviderType, v \in Voices : SetVoiceForProvider(p, v)

SpecVoiceStore == Init /\ [][NextVoiceStore]_vars

\* ========================================================= cost tracking

\* Math.max and Math.min
Max(a, b) == IF a >= b THEN a ELSE b
Min(a, b) == IF a <= b THEN a ELSE b

\* the year-month key `${getFullYear()}-${pad(getMonth() + 1)}` of a date
YearMonth(date) == << date.year, date.month + 1 >>

\* the date one month later
NextMonth(date) ==
    IF date.month = 11 THEN [year |-> date.year + 1, month |-> 0]
                       ELSE [date EXCEPT !.month = date.month + 1]

\* calculateTtsCost mutant: the remaining free tier is not clamped at 0
RemainingFreeTierUnclamped(limit, currentUsage) == limit - currentUsage

\* calculateTtsCost line 144: Math.max(0, freeTierLimit - currentUsage)
RemainingFreeTier(limit, currentUsage) == Max(0, limit - currentUsage)

\* calculateTtsCost(modelType, charactersUsed, currentUsage)
calculateTtsCost(modelType, charactersUsed, currentUsage) ==
    LET freeTierLimit      == FREE_TIER[modelType]
        pricePerCharacter  == PRICING[modelType]
        remainingFreeTier  == RemainingFreeTier(freeTierLimit, currentUsage)
        charactersCostFree == Min(charactersUsed, remainingFreeTier)
        charactersCostPaid == Max(0, charactersUsed - charactersCostFree)
    IN  [ charactersUsed     |-> charactersUsed,
          charactersCostFree |-> charactersCostFree,
          charactersCostPaid |-> charactersCostPaid,
          cost               |-> charactersCostPaid * pricePerCharacter ]

\* ---- JavaScript numbers: `cost` and the prices are IEEE 754 doubles.
\* A natural number is written in base 128, lowest digit first, highest
\* digit not 0; a double is m * 2^e with m an odd natural of at most 53 bits
\* (zero: m empty, e = 0).

\* 2^n
RECURSIVE Pow2(_)
Pow2(n) == IF n = 0 THEN 1 ELSE 2 * Pow2(n - 1)

\* the digits of the integer n
RECURSIVE DigitsOf(_)
DigitsOf(n) == IF n = 0 THEN << >> ELSE << n % 128 >> \o DigitsOf(n \div 128)

DigitAt(a, i) == IF i <= Len(a) THEN a[i] ELSE 0

\* a without its leading zero digits
RECURSIVE Trim(_)
Trim(a) == IF a = << >> \/ a[Len(a)] # 0 THEN a
           ELSE Trim(SubSeq(a, 1, Len(a) - 1))

\* the digits from position i of a + b + carry
RECURSIVE AddFrom(_, _, _, _)
AddFrom(a, b, i, carry) ==
    IF i > Len(a) /\ i > Len(b) THEN DigitsOf(carry)
    ELSE LET sum == DigitAt(a, i) + DigitAt(b, i) + carry
         IN  << sum % 128 >> \o AddFrom(a, b, i + 1, sum \div 128)

\* the digits from position i of a * n + carry, for an integer n < 2^23
RECURSIVE TimesFrom(_, _, _, _)
TimesFrom(a, n, i, carry) ==
    IF i > Len(a) THEN DigitsOf(carry)
    ELSE LET v == a[i] * n + carry
         IN  << v % 128 >> \o TimesFrom(a, n, i + 1, v \div 128)

\* long division of a by the integer den < 2^20, highest digit first: the
\* digits above position i gave the quotient q and the remainder r
RECURSIVE DivFrom(_, _, _, _, _)
DivFrom(a, i, den, q, r) ==
    IF i = 0 THEN [q |-> Trim(q), r |-> r]
    ELSE DivFrom(a, i - 1, den, << (128 * r + a[i]) \div den >> \o q,
                 (128 * r + a[i]) % den)

\* bit i of a, the lowest bit being bit 1
BitAt(a, i) ==
    IF i < 1 THEN 0
    ELSE (DigitAt(a, ((i - 1) \div 7) + 1) \div Pow2((i - 1) % 7)) % 2

\* the number of bits of a
BitLength(a) ==
    IF a = << >> THEN 0
    ELSE 7 * (Len(a) - 1)
            + (CHOOSE n \in 1..7 : Pow2(n - 1) <= a[Len(a)] /\ a[Len(a)] < Pow2(n))

\* a * 2^k, and for k < 0 a with its lowest -k bits cut off
Shifted(a, k) ==
    LET bits == BitLength(a) + k
        Digit(j) == LET low == 7 * (j - 1) + 1 - k
                    IN  BitAt(a, low) + 2 * BitAt(a, low + 1)
                        + 4 * BitAt(a, low + 2) + 8 * BitAt(a, low + 3)
                        + 16 * BitAt(a, low + 4) + 32 * BitAt(a, low + 5)
                        + 64 * BitAt(a, low + 6)
    IN  IF bits <= 0 THEN << >>
        ELSE Trim([j \in 1..((bits + 6) \div 7) |-> Digit(j)])

\* m * 2^e with the trailing zero bits of m moved into the exponent
Normalised(a, e) ==
    IF a = << >> THEN [m |-> << >>, e |-> 0]
    ELSE LET k == CHOOSE k \in 0..(BitLength(a) - 1) :
                     BitAt(a, k + 1) = 1 /\ \A i \in 1..k : BitAt(a, i) = 0
         IN  [m |-> Shifted(a, 0 - k), e |-> e + k]

\* round to nearest, ties to even
RoundsUp(odd, half, sticky) == half /\ (sticky \/ odd)

\* the double nearest to a * 2^e
ToDouble(a, e) ==
    IF BitLength(a) <= 53 THEN Normalised(a, e)
    ELSE LET k      == BitLength(a) - 53
             kept   == Shifted(a, 0 - k)
             odd    == BitAt(a, k + 1) = 1
             half   == BitAt(a, k) = 1
             sticky == \E i \in 1..(k - 1) : BitAt(a, i) = 1
         IN  Normalised(IF RoundsUp(odd, half, sticky)
                           THEN AddFrom(kept, << 1 >>, 1, 0) ELSE kept,
                        e + k)

\* the double a decimal literal num / den denotes (0 < num < den < 2^20):
\* 80 bits of the quotient and one more bit for a remainder
DoubleOfRatio(num, den) ==
    LET a == Shifted(DigitsOf(num), 80)
        d == DivFrom(a, Len(a), den, << >>, 0)
    IN  ToDouble(AddFrom(Shifted(d.q, 1), DigitsOf(IF d.r > 0 THEN 1 ELSE 0), 1, 0),
                 0 - 81)

\* n * x for an integer n and a double x
DoubleTimes(n, x) == ToDouble(Trim(TimesFrom(x.m, n, 1, 0)), x.e)

\* x + y for doubles x, y
DoublePlus(x, y) ==
    LET e == Min(x.e, y.e)
    IN  ToDouble(AddFrom(Shifted(x.m, x.e - e), Shifted(y.m, y.e - e), 1, 0), e)

\* the entries of PRICING as the doubles their literals denote
PricePerCharacter ==
    [ m \in GoogleCloudTtsModelType |-> DoubleOfRatio(PRICING[m], 1000000) ]

\* calculateTtsCost line 151: cost, the double the multiplication returns
costOf(modelType, charactersCostPaid) ==
    DoubleTimes(charactersCostPaid, PricePerCharacter[modelType])

\* calculateAzureTtsCost mutant: F0 characters beyond the allowance are paid
AzureF0PaidOverage(charactersUsed, charactersCostFree) ==
    charactersUsed - charactersCostFree

\* calculateAzureTtsCost line 402: F0 never incurs costs
AzureF0Paid(charactersUsed, charactersCostFree) == 0

\* calculateAzureTtsCost(tier, voiceType, charactersUsed, currentUsage)
calculateAzureTtsCost(tier, voiceType, charactersUsed, currentUsage) ==
    LET pricePerCharacter == AZURE_PRICING[voiceType]
    IN  IF tier = "F0"
           THEN LET remainingFreeTier ==
                        Max(0, AZURE_F0_FREE_LIMIT - currentUsage)
                    charactersCostFree ==
                        Min(charactersUsed, remainingFreeTier)
                IN  [ charactersUsed     |-> charactersUsed,
                      charactersCostFree |-> charactersCostFree,
                      charactersCostPaid |->
                          AzureF0Paid(charactersUsed, charactersCostFree),
                      cost               |-> 0 ]
           ELSE [ charactersUsed     |-> charactersUsed,
                  charactersCostFree |-> 0,
                  charactersCostPaid |-> charactersUsed,
                  cost               |-> charactersUsed * pricePerCharacter ]

\* initializeUsageTracking() called at date today
initializeUsageTracking(today) ==
    [ defined       |-> TRUE,
      lastResetDate |-> YearMonth(today),
      usage         |-> [m \in GoogleCloudTtsModelType |-> 0] ]

\* shouldResetUsage mutant: a ledger of an earlier month is kept
shouldResetUsageOnlyAbsent(usage, today) == ~usage.defined

\* shouldResetUsage mutant: the ledger is reset on every call
shouldResetUsageAlways(usage, today) == TRUE

\* shouldResetUsage(usage) called at date today
shouldResetUsage(usage, today) ==
    IF ~usage.defined THEN TRUE
                      ELSE usage.lastResetDate # YearMonth(today)

\* updateTtsUsage mutant: the amount is added to every counter
AddToAllCounters(usage, modelType, charactersUsed) ==
    [m \in GoogleCloudTtsModelType |-> usage[m] + charactersUsed]

\* updateTtsUsage mutant: the counter is assigned, not added to
AddToCounterAssigned(usage, modelType, charactersUsed) ==
    [usage EXCEPT ![modelType] = charactersUsed]

\* updateTtsUsage line 186: updatedUsage.usage[modelType] += charactersUsed
AddToCounter(usage, modelType, charactersUsed) ==
    [usage EXCEPT ![modelType] = @ + charactersUsed]

\* updateTtsUsage(usage, modelType, charactersUsed) called at date today
updateTtsUsage(usage, modelType, charactersUsed, today) ==
    LET currentUsage ==
            IF shouldResetUsage(usage, today)
               THEN initializeUsageTracking(today) ELSE usage
    IN  [ defined       |-> TRUE,
          lastResetDate |-> currentUsage.lastResetDate,
          usage         |-> AddToCounter(currentUsage.usage, modelType,
                                         charactersUsed) ]

\* updateTtsUsage mutant: the counters are not copied, the returned ledger
\* shares the counters object of currentUsage
CountersShared == "shared"

\* updateTtsUsage line 184, `usage: { ...currentUsage.usage }`: the counters
\* object that line 186 writes into is a copy
CountersObject == "copy"

\* the ledger object passed to updateTtsUsage as it is after the call:
\* line 186 writes into it only if currentUsage is that object (no reset)
\* and the counters object is shared
InputAfterUpdate(usage, modelType, charactersUsed, today) ==
    IF /\ usage.defined
       /\ ~shouldResetUsage(usage, today)
       /\ CountersObject = "shared"
       THEN [usage EXCEPT !.usage = AddToCounter(usage.usage, modelType,
                                                 charactersUsed)]
       ELSE usage

\* initializeAzureUsageTracking(tier) called at date today
initializeAzureUsageTracking(tier, today) ==
    [ defined       |-> TRUE,
      lastResetDate |-> YearMonth(today),
      tier          |-> tier,
      charactersUsed |-> 0 ]

\* shouldResetAzureUsage(usage) called at date today
shouldResetAzureUsage(usage, today) ==
    IF ~usage.defined THEN TRUE
                      ELSE usage.lastResetDate # YearMonth(today)

\* updateAzureTtsUsage mutant: a change of tier is not looked at
TierChangeIgnored(stored, tier) == FALSE

\* updateAzureTtsUsage line 437: currentUsage.tier !== tier
TierChanged(stored, tier) == stored # tier

\* updateAzureTtsUsage(usage, tier, charactersUsed) called at date today
updateAzureTtsUsage(usage, tier, charactersUsed, today) ==
    LET afterMonth ==
            IF shouldResetAzureUsage(usage, today)
               THEN initializeAzureUsageTracking(tier, today) ELSE usage
        currentUsage ==
            IF TierChanged(afterMonth.tier, tier)
               THEN initializeAzureUsageTracking(tier, today) ELSE afterMonth
    IN  [ currentUsage EXCEPT
            !.charactersUsed = currentUsage.charactersUsed + charactersUsed ]

\* a caller evaluates calculateTtsCost(m, c, u)
CalculateCost(m, c, u) ==
    /\ costDetails' = [ fn |-> "calculateTtsCost", modelType |-> m,
                        charactersUsed |-> c, currentUsage |-> u,
                        result |-> calculateTtsCost(m, c, u) ]
    /\ UNCHANGED << mgrVars, provVars, auxVars,
                    now, googleUsage, azureUsage, detected, lastUpdate,
                    updates, months >>

\* a caller evaluates calculateAzureTtsCost(tier, t, c, u)
CalculateAzureCost(tier, t, c, u) ==
    /\ costDetails' = [ fn |-> "calculateAzureTtsCost", tier |-> tier,
                        voiceType |-> t, charactersUsed |-> c,
                        currentUsage |-> u,
                        result |-> calculateAzureTtsCost(tier, t, c, u) ]
    /\ UNCHANGED << mgrVars, provVars, auxVars,
                    now, googleUsage, azureUsage, detected, lastUpdate,
                    updates, months >>

\* a caller replaces its ledger by updateTtsUsage(ledger, m, c)
UpdateUsage(m, c) ==
    /\ updates < MaxUpdates
    /\ updates' = updates + 1
    /\ googleUsage' = updateTtsUsage(googleUsage, m, c, now)
    /\ lastUpdate' = [ fn |-> "updateTtsUsage",
                       inputKept |-> InputAfterUpdate(googleUsage, m, c, now)
                                        = googleUsage,
                       resultIsNew |-> TRUE ]
    /\ UNCHANGED << mgrVars, provVars, auxVars,
                    now, azureUsage, costDetails, detected, months >>

\* a caller replaces its ledger by updateAzureTtsUsage(ledger, tier, c)
UpdateAzureUsage(tier, c) ==
    /\ updates < MaxUpdates
    /\ updates' = updates + 1
    /\ azureUsage' = updateAzureTtsUsage(azureUsage, tier, c, now)
    /\ lastUpdate' = [ fn |-> "updateAzureTtsUsage",
                       inputKept |-> TRUE,
                       resultIsNew |-> TRUE ]
    /\ UNCHANGED << mgrVars, provVars, auxVars,
                    now, googleUsage, costDetails, detected, months >>

\* the month ends
MonthEnds ==
    /\ months < MaxMonths
    /\ months' = months + 1
    /\ now' = NextMonth(now)
    /\ UNCHANGED << mgrVars, provVars, auxVars,
                    googleUsage, azureUsage, costDetails, detected,
                    lastUpdate, updates >>

\* the cost functions applied to every classification, count and usage
NextCost ==
    \/ \E m \in GoogleCloudTtsModelType, c \in CharCounts, u \in PriorUsages :
          CalculateCost(m, c, u)
    \/ \E tier \in AzureTtsTier, t \in AzureTtsVoiceType,
          c \in CharCounts, u \in PriorUsages :
          CalculateAzureCost(tier, t, c, u)

SpecCost == Init /\ [][NextCost]_vars

\* the usage ledgers over the months
NextUsage ==
    \/ \E m \in GoogleCloudTtsModelType, c \in UsageAmounts : UpdateUsage(m, c)
    \/ \E tier \in AzureTtsTier, c \in UsageAmounts : UpdateAzureUsage(tier, c)
    \/ MonthEnds

SpecUsage == Init /\ [][NextUsage]_vars

\* `currentUsage?.charactersUsed || 0` of the ledger read from global state
StoredCharacters(usage) == IF usage.defined THEN usage.charactersUsed ELSE 0

\* trackCost(text, voiceName, options) of the Azure REST backend, with the
\* tier setting, the class of the voice and text.length: the breakdown is
\* computed from the stored ledger, then the ledger is updated and saved
TrackCost(tier, t, c) ==
    /\ updates < MaxUpdates
    /\ updates' = updates + 1
    /\ costDetails' = [ fn |-> "trackCost", tier |-> tier, voiceType |-> t,
                        charactersUsed |-> c,
                        currentUsage |-> StoredCharacters(azureUsage),
                        result |-> calculateAzureTtsCost(
                                      tier, t, c, StoredCharacters(azureUsage)) ]
    /\ azureUsage' = updateAzureTtsUsage(azureUsage, tier, c, now)
    /\ lastUpdate' = [ fn |-> "updateAzureTtsUsage",
                       inputKept |-> TRUE,
                       resultIsNew |-> TRUE ]
    /\ UNCHANGED << mgrVars, provVars, auxVars,
                    now, googleUsage, detected,
                    months >>

\* the Azure REST backend tracks the cost of its syntheses over the months
NextTrack ==
    \/ \E tier \in AzureTtsTier, t \in AzureTtsVoiceType, c \in TrackCounts :
          TrackCost(tier, t, c)
    \/ MonthEnds

SpecTrack == Init /\ [][NextTrack]_vars

\* usage.usage[modelType] of the ledger a caller holds, 0 without a ledger
StoredUsage(usage, modelType) ==
    IF usage.defined THEN usage.usage[modelType] ELSE 0

\* a caller prices a request of c characters of model m at the usage its
\* ledger holds, calculateTtsCost(m, c, usage), and replaces the ledger by
\* updateTtsUsage(ledger, m, c)
PriceRequest(m, c) ==
    /\ updates < MaxUpdates
    /\ updates' = updates + 1
    /\ LET u      == StoredUsage(googleUsage, m)
           result == calculateTtsCost(m, c, u)
           this   == [ modelType |-> m, charactersUsed |-> c, currentUsage |-> u,
                       result |-> result,
                       cost |-> costOf(m, result.charactersCostPaid) ]
       IN  /\ costDetails' = [ fn |-> "calculateTtsCost", modelType |-> m,
                               charactersUsed |-> c, currentUsage |-> u,
                               result |-> result ]
           /\ priced' = IF priced # << >> /\ priced[Len(priced)].modelType = m
                           THEN << priced[Len(priced)], this >>
                           ELSE << this >>
    /\ googleUsage' = updateTtsUsage(googleUsage, m, c, now)
    /\ lastUpdate' = [ fn |-> "updateTtsUsage",
                       inputKept |-> InputAfterUpdate(googleUsage, m, c, now)
                                        = googleUsage,
                       resultIsNew |-> TRUE ]
    /\ UNCHANGED << mgrVars, provVars, chunk, isTtsEnabled, speed, gated, now,
                    azureUsage, detected, months >>

\* requests priced one after the other within a month
NextSplit ==
    \E m \in GoogleCloudTtsModelType, c \in SplitCounts : PriceRequest(m, c)

SpecSplit == Init /\ [][NextSplit]_vars

\* ---------------------------------------------------------------------------
\* Voice name classification (src/shared/ttsCost.ts).  A string is the
\* sequence of its characters.
\* ---------------------------------------------------------------------------

NamePrefixes ==
    {<< "e", "n", "-", "U", "S", "-" >>,
     << >> }

NameMiddles ==
    {<< "C", "h", "i", "r", "p", "3", "-", "H", "D" >>,
     << "c", "h", "i", "r", "p", "3", "-", "h", "d" >>,
     << "C", "h", "i", "r", "p", "3", "H", "D" >>,
     << "C", "H", "I", "R", "P", "3" >>,
     << "W", "a", "v", "e", "N", "e", "t" >>,
     << "W", "a", "v", "e", "n", "e", "t" >>,
     << "S", "t", "u", "d", "i", "o" >>,
     << "S", "T", "U", "D", "I", "O" >>,
     << "N", "e", "u", "r", "a", "l", "2" >>,
     << "N", "e", "u", "r", "a", "l" >>,
     << "P", "o", "l", "y", "g", "l", "o", "t" >>,
     << "C", "u", "s", "t", "o", "m" >>,
     << "S", "t", "a", "n", "d", "a", "r", "d" >>,
     << "U", "n", "k", "n", "o", "w", "n" >>,
     << "A", "r", "i", "a", "N", "e", "u", "r", "a", "l" >>,
     << "J", "e", "n", "n", "y", "M", "u", "l", "t", "i", "l", "i", "n", "g", "u", "a", "l", "V", "2", "N", "e", "u", "r", "a", "l" >>,
     << "S", "o", "m", "e", "H", "D", "V", "o", "i", "c", "e" >>,
     << "C", "u", "s", "t", "o", "m", "N", "e", "u", "r", "a", "l" >>,
     << >> }

NameSuffixes ==
    {<< >>,
     << "-", "A" >>,
     << "-", "C", "u", "s", "t", "o", "m" >>,
     << "-", "S", "t", "u", "d", "i", "o", "-", "H", "D" >>,
     << "-", "W", "a", "v", "e", "N", "e", "t" >> }

\* the voice names of the tests of both detection functions that are not
\* made of the parts above
TestNames ==
    {<< "e", "n", "-", "U", "S", "-", "C", "h", "i", "r", "p", "3", "-", "H", "D", "-", "A", "c", "h", "e", "r", "n", "a", "r" >>,
     << "e", "n", "-", "u", "s", "-", "c", "h", "i", "r", "p", "3", "-", "h", "d", "-", "t", "e", "s", "t" >>,
     << "e", "n", "-", "U", "S", "-", "U", "n", "k", "n", "o", "w", "n", "-", "V", "o", "i", "c", "e" >>,
     << "e", "n", "-", "U", "S", "-", "C", "u", "s", "t", "o", "m", "-", "V", "o", "i", "c", "e", "-", "A" >> }

\* the voice names the detection functions are called with
VoiceNames ==
    { p \o m \o x : p \in NamePrefixes, m \in NameMiddles, x \in NameSuffixes }
        \cup TestNames

\* String.prototype.toLowerCase on the letters A-Z
LowerOf ==
    [ A |-> "a", B |-> "b", C |-> "c", D |-> "d", E |-> "e", F |-> "f", 
      G |-> "g", H |-> "h", I |-> "i", J |-> "j", K |-> "k", L |-> "l", 
      M |-> "m", N |-> "n", O |-> "o", P |-> "p", Q |-> "q", R |-> "r", 
      S |-> "s", T |-> "t", U |-> "u", V |-> "v", W |-> "w", X |-> "x", 
      Y |-> "y", Z |-> "z" ]

\* toLowerCase mutant: the name is compared as it is written
toLowerCaseKept(str) == str

\* String.prototype.toLowerCase
toLowerCase(str) ==
    [i \in 1..Len(str) |->
        IF str[i] \in DOMAIN LowerOf THEN LowerOf[str[i]] ELSE str[i]]

\* String.prototype.includes
includes(str, searchString) ==
    \E i \in 0..(Len(str) - Len(searchString)) :
        SubSeq(str, i + 1, i + Len(searchString)) = searchString

detectModelTypeFromVoiceName(voiceName) ==
    LET lowerVoice == toLowerCase(voiceName)
    IN  IF \/ includes(lowerVoice, << "c", "h", "i", "r", "p", "3", "-", "h", "d" >>)
           \/ includes(lowerVoice, << "c", "h", "i", "r", "p", "3", "h", "d" >>)
           THEN "chirp3Hd"
        ELSE IF includes(lowerVoice, << "w", "a", "v", "e", "n", "e", "t" >>)
           THEN "wavenet"
        ELSE IF includes(lowerVoice, << "s", "t", "u", "d", "i", "o" >>)
           THEN "studio"
        ELSE IF includes(lowerVoice, << "n", "e", "u", "r", "a", "l", "2" >>)
           THEN "neural2"
        ELSE IF includes(lowerVoice, << "p", "o", "l", "y", "g", "l", "o", "t" >>)
           THEN "polyglot"
        ELSE IF includes(lowerVoice, << "c", "u", "s", "t", "o", "m" >>)
           THEN "instantCustom"
        ELSE "standard"

\* detectAzureVoiceType mutant: the custom marker is looked for first
detectAzureVoiceTypeCustomFirst(voiceName) ==
    LET lowerVoice == toLowerCase(voiceName)
    IN  IF includes(lowerVoice, << "c", "u", "s", "t", "o", "m" >>)
           THEN "custom"
        ELSE IF \/ includes(lowerVoice, << "h", "d" >>)
                \/ includes(lowerVoice, << "m", "u", "l", "t", "i", "l", "i", "n", "g", "u", "a", "l" >>)
           THEN "neuralHd"
        ELSE "neural"

detectAzureVoiceType(voiceName) ==
    LET lowerVoice == toLowerCase(voiceName)
    IN  IF \/ includes(lowerVoice, << "h", "d" >>)
           \/ includes(lowerVoice, << "m", "u", "l", "t", "i", "l", "i", "n", "g", "u", "a", "l" >>)
           THEN "neuralHd"
        ELSE IF includes(lowerVoice, << "c", "u", "s", "t", "o", "m" >>)
           THEN "custom"
        ELSE "neural"

\* a call of detectModelTypeFromVoiceName
DetectModelType(voiceName) ==
    /\ detected' = [ fn |-> "detectModelTypeFromVoiceName",
                     voiceName |-> voiceName,
                     result |-> detectModelTypeFromVoiceName(voiceName) ]
    /\ UNCHANGED << mgrVars, provVars, auxVars,
                    now, googleUsage, azureUsage, costDetails,
                    lastUpdate, updates, months >>

\* a call of detectAzureVoiceType
DetectAzureVoiceType(voiceName) ==
    /\ detected' = [ fn |-> "detectAzureVoiceType",
                     voiceName |-> voiceName,
                     result |-> detectAzureVoiceType(voiceName) ]
    /\ UNCHANGED << mgrVars, provVars, auxVars,
                    now, googleUsage, azureUsage, costDetails,
                    lastUpdate, updates, months >>

NextDetect ==
    \/ \E voiceName \in VoiceNames : DetectModelType(voiceName)
    \/ \E voiceName \in VoiceNames : DetectAzureVoiceType(voiceName)

SpecDetect == Init /\ [][NextDetect]_vars

\* ---------------------------------------------------------------------------
\* The backends (NativeTtsProvider, GoogleCloudTtsProvider, AzureTtsProvider
\* with the speech SDK and with REST), called directly.  An action is one
\* run of a backend method or of a callback up to its next await.
\* ---------------------------------------------------------------------------

\* the fields the speak() and stop() methods of the backends read and write
ProviderState ==
    [ pcall |-> pcall, handle |-> handle, currentOnStop |-> currentOnStop,
      isPlaying |-> isPlaying ]

\* the fields take the values of S
Becomes(S) ==
    /\ pcall' = S.pcall
    /\ handle' = S.handle
    /\ currentOnStop' = S.currentOnStop
    /\ isPlaying' = S.isPlaying

\* the call is suspended on an asynchronous operation
InProgress(call) ==
    call.phase \in {"config", "voices", "synth", "track", "play"}

\* c is the next call to be made
NextCall(c) ==
    /\ pcall[c].phase = "none"
    /\ \A d \in CallIds : d < c => pcall[d].phase # "none"

\* speak() is called on backend b, the call is suspended in the given phase
Called(S, c, b, phase) ==
    [S EXCEPT !.pcall[c].backend = b, !.pcall[c].phase = phase]

\* options.onStart?.() of call c
onStart(S, c) == [S EXCEPT !.pcall[c].onStart = @ + 1]

\* options.onStop?.() of call c
onStop(S, c) == [S EXCEPT !.pcall[c].onStop = @ + 1]

\* the promise of call c settles, or never will ("hung")
Ends(S, c, phase) == [S EXCEPT !.pcall[c].phase = phase]

\* the process (or synthesizer) the backend holds is killed (closed) and the
\* field that holds it becomes undefined
Kill(S, b) ==
    IF S.handle[b] = 0
       THEN S
       ELSE [S EXCEPT !.pcall[S.handle[b]].killed = TRUE, !.handle[b] = 0]

\* if (this.currentOnStop) { this.currentOnStop(); this.currentOnStop = undefined }
CallCurrentOnStop(S) ==
    IF S.currentOnStop = 0
       THEN S
       ELSE [onStop(S, S.currentOnStop) EXCEPT !.currentOnStop = 0]

\* NativeTtsProvider.stop()
NativeStop(S) == CallCurrentOnStop(Kill(S, "native"))

\* GoogleCloudTtsProvider.stop()
GoogleStop(S) == Kill(S, "google-cloud")

\* AzureTtsProvider.stop() (SDK)
SdkStop(S) == [Kill(S, "azure-sdk") EXCEPT !.isPlaying = FALSE]

\* AzureTtsProvider.stop() (REST)
RestStop(S) == Kill(S, "azure-rest")

\* stop() of backend b
stop(b, S) ==
    CASE b = "native"       -> NativeStop(S)
      [] b = "google-cloud" -> GoogleStop(S)
      [] b = "azure-sdk"    -> SdkStop(S)
      [] b = "azure-rest"   -> RestStop(S)

\* /^[a-z]{2}-[A-Z]{2}-.+/.test(name)
validVoicePattern(name) ==
    /\ Len(name) >= 7
    /\ name[1] \in {LowerOf[u] : u \in DOMAIN LowerOf}
    /\ name[2] \in {LowerOf[u] : u \in DOMAIN LowerOf}
    /\ name[3] = "-"
    /\ name[4] \in DOMAIN LowerOf
    /\ name[5] \in DOMAIN LowerOf
    /\ name[6] = "-"

\* cachedVoices of backend b after an inventory request with the outcome
CacheAfterFetch(b, cached, outcome) ==
    CASE b = "native" ->
            IF outcome.ok THEN outcome.list ELSE << DefaultVoice >>
      [] b = "google-cloud" ->
            IF outcome.ok THEN SelectSeq(outcome.list, validVoicePattern)
                          ELSE cached
      [] OTHER ->
            IF outcome.ok THEN outcome.list ELSE cached

\* ------------------------------------------------- NativeTtsProvider

\* speak(): sayInstance and currentOnStop are set, onStart is called and
\* say.speak() starts the speech
NativeSpeak(c) ==
    /\ NextCall(c)
    /\ Becomes([onStart(Called(ProviderState, c, "native", "play"), c)
                  EXCEPT !.handle["native"] = c, !.currentOnStop = c])
    /\ UNCHANGED << mgrVars, costVars, auxVars, cachedVoices, fetchVars, stopSeen,
                    backendStops >>

\* speak(): say.speak() throws, the catch block calls currentOnStop and
\* rejects
NativeSpeakThrows(c) ==
    /\ NextCall(c)
    /\ Becomes([Ends(CallCurrentOnStop(
                       [onStart(Called(ProviderState, c, "native", "play"), c)
                          EXCEPT !.currentOnStop = c]), c, "rejected")
                  EXCEPT !.handle["native"] = 0])
    /\ UNCHANGED << mgrVars, costVars, auxVars, cachedVoices, fetchVars, stopSeen,
                    backendStops >>

\* the callback of say.speak(): the speech of call c has ended, with an
\* error if it was killed
NativeCallback(c, err) ==
    /\ pcall[c].backend = "native"
    /\ pcall[c].phase = "play"
    /\ pcall[c].killed => err
    /\ Becomes([Ends(CallCurrentOnStop(ProviderState), c,
                     IF err THEN "rejected" ELSE "resolved")
                  EXCEPT !.handle["native"] = 0])
    /\ UNCHANGED << mgrVars, costVars, auxVars, cachedVoices, fetchVars, stopSeen,
                    backendStops >>

\* ------------------------------------------------- GoogleCloudTtsProvider

\* speak(): onStart is called; with no cached voices the call awaits
\* getVoices(), else it starts the synthesis
GoogleSpeak(c) ==
    /\ NextCall(c)
    /\ Becomes(onStart(Called(ProviderState, c, "google-cloud",
                              IF cachedVoices["google-cloud"] = << >>
                                 THEN "voices" ELSE "synth"), c))
    /\ UNCHANGED << mgrVars, costVars, auxVars, cachedVoices, fetchVars, stopSeen,
                    backendStops >>

\* getVoices() inside speak() has settled (its error is swallowed); with no
\* requested and no cached voice speak() throws, the catch block calls onStop
GoogleVoicesDone(c, outcome, hasVoice) ==
    /\ pcall[c].backend = "google-cloud"
    /\ pcall[c].phase = "voices"
    /\ cachedVoices' = [cachedVoices EXCEPT !["google-cloud"] =
                           CacheAfterFetch("google-cloud", @, outcome)]
    /\ IF cachedVoices'["google-cloud"] = << >> /\ ~hasVoice
          THEN Becomes(Ends(onStop(ProviderState, c), c, "rejected"))
          ELSE Becomes(Ends(ProviderState, c, "synth"))
    /\ UNCHANGED << mgrVars, costVars, auxVars, fetchVars, stopSeen, backendStops >>

\* the synthesis requests have settled: playAudio() spawns the player, or
\* the catch block calls onStop and rejects
GoogleSynthDone(c, ok) ==
    /\ pcall[c].backend = "google-cloud"
    /\ pcall[c].phase = "synth"
    /\ IF ok
          THEN Becomes([Ends(ProviderState, c, "play")
                          EXCEPT !.handle["google-cloud"] = c])
          ELSE Becomes(Ends(onStop(ProviderState, c), c, "rejected"))
    /\ UNCHANGED << mgrVars, costVars, auxVars, cachedVoices, fetchVars, stopSeen,
                    backendStops >>

\* the player of call c has closed: currentAudio is cleared, onStop is
\* called after playAudio() or in the catch block
GooglePlayClose(c, ok) ==
    /\ pcall[c].backend = "google-cloud"
    /\ pcall[c].phase = "play"
    /\ Becomes([Ends(onStop(ProviderState, c), c,
                     IF ok THEN "resolved" ELSE "rejected")
                  EXCEPT !.handle["google-cloud"] = 0])
    /\ UNCHANGED << mgrVars, costVars, auxVars, cachedVoices, fetchVars, stopSeen,
                    backendStops >>

\* ------------------------------------------------- AzureTtsProvider (SDK)

\* speak(): rejects when isPlaying, else awaits getSpeechConfig()
SdkSpeak(c) ==
    /\ NextCall(c)
    /\ Becomes(Called(ProviderState, c, "azure-sdk",
                      IF isPlaying THEN "rejected" ELSE "config"))
    /\ UNCHANGED << mgrVars, costVars, auxVars, cachedVoices, fetchVars, stopSeen,
                    backendStops >>

\* getSpeechConfig() has settled: the synthesizer is created, isPlaying is
\* set, onStart is called and the synthesis starts; or require() or
\* getSpeechConfig() threw and the catch block calls onStop
SdkConfigDone(c, ok) ==
    /\ pcall[c].backend = "azure-sdk"
    /\ pcall[c].phase = "config"
    /\ IF ok
          THEN Becomes([Ends(onStart(ProviderState, c), c, "synth")
                          EXCEPT !.handle["azure-sdk"] = c,
                                 !.isPlaying = TRUE])
          ELSE Becomes([Ends(onStop(ProviderState, c), c, "rejected")
                          EXCEPT !.isPlaying = FALSE])
    /\ UNCHANGED << mgrVars, costVars, auxVars, cachedVoices, fetchVars, stopSeen,
                    backendStops >>

\* a callback of speakTextAsync(): isPlaying is reset and onStop is called;
\* the result callback calls this.synthesizer.close(), which throws when
\* stop() has made the synthesizer undefined, and then the promise never
\* settles; the error callback closes the synthesizer if there is one
SdkCallback(c, kind) ==
    /\ pcall[c].backend = "azure-sdk"
    /\ pcall[c].phase = "synth"
    /\ LET S == [onStop(ProviderState, c) EXCEPT !.isPlaying = FALSE]
       IN  IF kind # "error" /\ handle["azure-sdk"] = 0
              THEN Becomes(Ends(S, c, "hung"))
              ELSE Becomes(Ends(Kill(S, "azure-sdk"), c,
                                IF kind = "completed" THEN "resolved"
                                                      ELSE "rejected"))
    /\ UNCHANGED << mgrVars, costVars, auxVars, cachedVoices, fetchVars, stopSeen,
                    backendStops >>

\* ------------------------------------------------- AzureTtsProvider (REST)

\* speak(): stop() is called; with no cached voices the call awaits
\* getVoices(), else it posts the synthesis request
RestSpeak(c) ==
    /\ NextCall(c)
    /\ Becomes(Called(RestStop(ProviderState), c, "azure-rest",
                      IF cachedVoices["azure-rest"] = << >>
                         THEN "voices" ELSE "synth"))
    /\ UNCHANGED << mgrVars, costVars, auxVars, cachedVoices, fetchVars, stopSeen,
                    backendStops >>

\* getVoices() inside speak() has settled: the synthesis request is posted,
\* or speak() rejects
RestVoicesDone(c, outcome) ==
    /\ pcall[c].backend = "azure-rest"
    /\ pcall[c].phase = "voices"
    /\ cachedVoices' = [cachedVoices EXCEPT !["azure-rest"] =
                           CacheAfterFetch("azure-rest", @, outcome)]
    /\ Becomes(Ends(ProviderState, c,
                    IF outcome.ok THEN "synth" ELSE "rejected"))
    /\ UNCHANGED << mgrVars, costVars, auxVars, fetchVars, stopSeen, backendStops >>

\* the synthesis request has settled: trackCost() is awaited, or speak()
\* rejects
RestSynthDone(c, ok) ==
    /\ pcall[c].backend = "azure-rest"
    /\ pcall[c].phase = "synth"
    /\ Becomes(Ends(ProviderState, c, IF ok THEN "track" ELSE "rejected"))
    /\ UNCHANGED << mgrVars, costVars, auxVars, cachedVoices, fetchVars, stopSeen,
                    backendStops >>

\* trackCost() has settled: onStart is called and playAudio() spawns the
\* player
RestTrackDone(c) ==
    /\ pcall[c].backend = "azure-rest"
    /\ pcall[c].phase = "track"
    /\ Becomes([Ends(onStart(ProviderState, c), c, "play")
                  EXCEPT !.handle["azure-rest"] = c])
    /\ UNCHANGED << mgrVars, costVars, auxVars, cachedVoices, fetchVars, stopSeen,
                    backendStops >>

\* the player of call c has closed: currentAudio is cleared; onStop is
\* called after playAudio() only, the catch block does not call it
RestPlayClose(c, ok) ==
    /\ pcall[c].backend = "azure-rest"
    /\ pcall[c].phase = "play"
    /\ IF ok
          THEN Becomes([Ends(onStop(ProviderState, c), c, "resolved")
                          EXCEPT !.handle["azure-rest"] = 0])
          ELSE Becomes([Ends(ProviderState, c, "rejected")
                          EXCEPT !.handle["azure-rest"] = 0])
    /\ UNCHANGED << mgrVars, costVars, auxVars, cachedVoices, fetchVars, stopSeen,
                    backendStops >>

\* ------------------------------------------------- stop() of a backend

BackendStop(b) ==
    /\ backendStops < MaxBackendStops
    /\ backendStops' = backendStops + 1
    /\ Becomes(stop(b, ProviderState))
    /\ stopSeen' = stopSeen \cup
          { c \in CallIds : /\ pcall[c].backend = b
                            /\ InProgress(pcall[c])
                            /\ pcall[c].onStart > 0
                            /\ pcall[c].onStop = 0 }
    /\ UNCHANGED << mgrVars, costVars, auxVars, cachedVoices, fetchVars >>

\* ------------------------------------------------- getVoices()

\* getVoices() of backend b: the cached list is returned if it is not empty,
\* else an inventory request is made
GetVoices(b) ==
    /\ getVoicesCalls < MaxGetVoices
    /\ getVoicesCalls' = getVoicesCalls + 1
    /\ updatedSince' = [updatedSince EXCEPT ![b] = FALSE]
    /\ IF Len(cachedVoices[b]) > 0
          THEN /\ lastVoices' = [ backend |-> b, fetch |-> FALSE,
                                  result |-> cachedVoices[b] ]
               /\ UNCHANGED fetching
          ELSE /\ lastVoices' = [ backend |-> b, fetch |-> TRUE,
                                  result |-> << >> ]
               /\ fetching' = [fetching EXCEPT ![b] = @ + 1]
    /\ UNCHANGED << mgrVars, costVars, auxVars, callVars, cachedVoices, lastFetched,
                    keyUpdates >>

\* an inventory request of getVoices() has settled: on success the list is
\* cached and returned
FetchDone(b, outcome) ==
    /\ fetching[b] > 0
    /\ fetching' = [fetching EXCEPT ![b] = @ - 1]
    /\ cachedVoices' = [cachedVoices EXCEPT ![b] =
                           CacheAfterFetch(b, @, outcome)]
    /\ lastFetched' =
          IF outcome.ok \/ b = "native"
             THEN [lastFetched EXCEPT ![b] =
                      [ ok |-> TRUE, list |-> cachedVoices'[b] ]]
             ELSE lastFetched
    /\ UNCHANGED << mgrVars, costVars, auxVars, callVars, updatedSince, lastVoices,
                    getVoicesCalls, keyUpdates >>

\* setApiKey() / setCredentials() of a backend the manager holds
\* (TtsProviderManager.updateCredentials for an existing provider)
SetCredentials(b) ==
    /\ b \in CloudImpl
    /\ keyUpdates < MaxKeyUpdates
    /\ keyUpdates' = keyUpdates + 1
    /\ cachedVoices' = [cachedVoices EXCEPT ![b] = << >>]
    /\ handle' = IF b = "azure-sdk" THEN [handle EXCEPT ![b] = 0] ELSE handle
    /\ lastFetched' = [lastFetched EXCEPT ![b] = NoFetch]
    /\ updatedSince' = [updatedSince EXCEPT ![b] = TRUE]
    /\ UNCHANGED << mgrVars, costVars, auxVars, pcall, currentOnStop, isPlaying,
                    stopSeen, backendStops, fetching, lastVoices,
                    getVoicesCalls >>

\* ------------------------------------------------- specifications

\* an asynchronous operation a call is suspended on completes
ProvSettle ==
    \E c \in CallIds :
        \/ \E err \in BOOLEAN : NativeCallback(c, err)
        \/ \E outcome \in SpeakFetchOutcomes, hasVoice \in BOOLEAN :
              GoogleVoicesDone(c, outcome, hasVoice)
        \/ \E ok \in BOOLEAN : GoogleSynthDone(c, ok)
        \/ \E ok \in BOOLEAN : GooglePlayClose(c, ok)
        \/ \E ok \in BOOLEAN : SdkConfigDone(c, ok)
        \/ /\ ~pcall[c].killed
           /\ \E kind \in {"completed", "failed", "error"} :
                 SdkCallback(c, kind)
        \/ \E outcome \in SpeakFetchOutcomes : RestVoicesDone(c, outcome)
        \/ \E ok \in BOOLEAN : RestSynthDone(c, ok)
        \/ RestTrackDone(c)
        \/ \E ok \in BOOLEAN : RestPlayClose(c, ok)

\* a callback of a synthesizer that stop() has closed
SdkLateCallback ==
    \E c \in CallIds :
        /\ pcall[c].killed
        /\ \E kind \in {"completed", "failed", "error"} : SdkCallback(c, kind)

NextProv ==
    \/ \E c \in CallIds : NativeSpeak(c)
    \/ \E c \in CallIds : NativeSpeakThrows(c)
    \/ \E c \in CallIds : GoogleSpeak(c)
    \/ \E c \in CallIds : SdkSpeak(c)
    \/ \E c \in CallIds : RestSpeak(c)
    \/ \E b \in BackendImpl : BackendStop(b)
    \/ ProvSettle
    \/ SdkLateCallback

SpecProv == Init /\ [][NextProv]_vars

\* every operation a call is suspended on completes, and a synthesizer
\* that stop() has closed still calls back
SpecProvLive ==
    Init /\ [][NextProv]_vars /\ WF_vars(ProvSettle) /\ WF_vars(SdkLateCallback)

NextCache ==
    \/ \E b \in BackendImpl : GetVoices(b)
    \/ \E b \in BackendImpl, outcome \in FetchOutcomes : FetchDone(b, outcome)
    \/ \E b \in CloudImpl : SetCredentials(b)

SpecCache == Init /\ [][NextCache]_vars

\* ---------------------------------------------------------------------------
\* Direct manager calls (TtsProviderManager.isProviderConfigured,
\* getVoicesForProvider, validateProvider): they bypass the queue and run
\* on the instance the map holds for the provider type when they are called
\* ---------------------------------------------------------------------------

\* the variables of the manager that a direct call does not own
mgrFrame == << providers, hasKey, activeProviderType, currentVoice,
               perBackendVoice, queue, isProcessing, calls, loops, switchCall,
               nextReq, enqueued, dispatched, settled, orphans, stops,
               lastSelected >>

\* a direct call with the given outcome or suspension
Direct(fn, p, phase) == [fn |-> fn, p |-> p, phase |-> phase, detached |-> FALSE]

\* isProviderConfigured(providerType), lines 165-169
isProviderConfigured(provs, keys, p) ==
    IF p \notin provs THEN FALSE ELSE IsConfigured(p, keys)

\* a caller evaluates isProviderConfigured(p)
IsProviderConfigured(p) ==
    /\ direct.phase \notin DirectPending
    /\ direct' = Direct("isProviderConfigured", p,
                        IF isProviderConfigured(providers, hasKey, p)
                           THEN "true" ELSE "false")
    /\ UNCHANGED << mgrFrame, costVars, provVars, auxVars >>

\* getVoicesForProvider / validateProvider mutant: a missing provider is
\* not looked for, the call goes on with the provider type
LookupSkipped(provs, p) == TRUE

\* lines 184-185 and 241-242: const provider = this.providers.get(...);
\* if (!provider) throw
LookupFinds(provs, p) == p \in provs

\* getVoicesForProvider(providerType) up to `await provider.isConfigured()`
\* (lines 184-189): throws when the provider is not in the map
GetVoicesForProvider(p) ==
    /\ direct.phase \notin DirectPending
    /\ direct' = Direct("getVoicesForProvider", p,
                        IF ~LookupFinds(providers, p) THEN "unregistered"
                        ELSE IF IsConfigured(p, hasKey) THEN "configured"
                                                        ELSE "unconfigured")
    /\ UNCHANGED << mgrFrame, costVars, provVars, auxVars >>

\* getVoicesForProvider after the await (lines 190-194): throws when
\* isConfigured() gave false, else provider.getVoices() returns the cached
\* list or starts an inventory request; an instance that is no longer in
\* the map does so on fields of its own
GetVoicesResume ==
    /\ direct.fn = "getVoicesForProvider"
    /\ direct.phase \in {"configured", "unconfigured"}
    /\ LET b == ManagerImpl(direct.p)
       IN  IF direct.phase = "unconfigured"
              THEN /\ direct' = [direct EXCEPT !.phase = "misconfigured"]
                   /\ UNCHANGED fetching
              ELSE IF direct.detached
                      THEN /\ direct' = [direct EXCEPT !.phase = "fetch"]
                           /\ UNCHANGED fetching
                      ELSE IF Len(cachedVoices[b]) > 0
                              THEN /\ direct' = [direct EXCEPT
                                                   !.phase = "resolved"]
                                   /\ UNCHANGED fetching
                              ELSE /\ direct' = [direct EXCEPT !.phase = "fetch"]
                                   /\ fetching' = [fetching EXCEPT ![b] = @ + 1]
    /\ UNCHANGED << mgrFrame, costVars, auxVars, callVars, cachedVoices, lastFetched,
                    updatedSince, lastVoices, getVoicesCalls, keyUpdates >>

\* validateProvider(providerType), lines 241-245, up to the first await of
\* provider.validateConfiguration(): native resolves; a cloud provider
\* without credentials throws; Google requests the inventory
\* (listVoicesRest), Azure calls its getVoices()
ValidateProvider(p) ==
    /\ direct.phase \notin DirectPending
    /\ LET b == ManagerImpl(p)
       IN  IF ~LookupFinds(providers, p)
              THEN /\ direct' = Direct("validateProvider", p, "unregistered")
                   /\ UNCHANGED fetching
              ELSE IF p = "native"
                      THEN /\ direct' = Direct("validateProvider", p, "resolved")
                           /\ UNCHANGED fetching
              ELSE IF ~hasKey[p]
                      THEN /\ direct' = Direct("validateProvider", p, "rejected")
                           /\ UNCHANGED fetching
              ELSE IF p = "google-cloud"
                      THEN /\ direct' = Direct("validateProvider", p, "validate")
                           /\ UNCHANGED fetching
              ELSE IF Len(cachedVoices[b]) > 0
                      THEN /\ direct' = Direct("validateProvider", p, "resolved")
                           /\ UNCHANGED fetching
                      ELSE /\ direct' = Direct("validateProvider", p, "fetch")
                           /\ fetching' = [fetching EXCEPT ![b] = @ + 1]
    /\ UNCHANGED << mgrFrame, costVars, auxVars, callVars, cachedVoices, lastFetched,
                    updatedSince, lastVoices, getVoicesCalls, keyUpdates >>

\* validateProvider mutant: a failed validation request is swallowed
ValidationOutcomeSwallowed(ok) == "resolved"

\* validateConfiguration() rethrows the failure of its request; validateProvider
\* awaits it without a catch (line 245)
ValidationOutcome(ok) == IF ok THEN "resolved" ELSE "rejected"

\* the request of GoogleCloudTtsProvider.validateConfiguration() has settled
DirectValidateDone(ok) ==
    /\ direct.phase = "validate"
    /\ direct' = [direct EXCEPT !.phase = ValidationOutcome(ok)]
    /\ UNCHANGED << mgrFrame, costVars, provVars, auxVars >>

\* the inventory request of the getVoices() a direct call is suspended on
\* has settled: the instance caches the list; getVoices() of the native
\* provider returns a default voice instead of failing
DirectFetchDone(outcome) ==
    /\ direct.phase = "fetch"
    /\ LET b == ManagerImpl(direct.p)
       IN  /\ direct' = [direct EXCEPT !.phase =
                            IF b = "native" THEN "resolved"
                            ELSE IF direct.fn = "validateProvider"
                                    THEN ValidationOutcome(outcome.ok)
                                    ELSE IF outcome.ok THEN "resolved"
                                                       ELSE "rejected"]
           /\ IF direct.detached
                 THEN UNCHANGED << fetching, cachedVoices >>
                 ELSE /\ fetching' = [fetching EXCEPT ![b] = @ - 1]
                      /\ cachedVoices' = [cachedVoices EXCEPT ![b] =
                                             CacheAfterFetch(b, @, outcome)]
    /\ UNCHANGED << mgrFrame, costVars, auxVars, callVars, lastFetched, updatedSince,
                    lastVoices, getVoicesCalls, keyUpdates >>

\* the outcomes of the inventory request a direct call makes
DirectFetchOutcomes == { o \in FetchOutcomes : o.list \in { << LocaleVoice >> } }
                          \cup { [ ok |-> FALSE, list |-> << >> ] }

\* the registry, the active provider, the queue and getVoicesForProvider()
NextRegistry ==
    \/ \E p \in TtsProviderType, s \in BOOLEAN : UpdateCredentials(p, s)
    \/ \E p \in TtsProviderType : RemoveProvider(p)
    \/ \E p \in TtsProviderType : SetActiveStart(p)
    \/ SetActiveResume
    \/ \E in \in PlainInputs : Speak(in, MaxReq)
    \/ \E p \in TtsProviderType : GetVoicesForProvider(p)
    \/ GetVoicesResume
    \/ \E outcome \in DirectFetchOutcomes : DirectFetchDone(outcome)

SpecRegistry == Init /\ [][NextRegistry]_vars

\* the registry, the active provider and the direct calls
NextDirect ==
    \/ \E p \in TtsProviderType, s \in BOOLEAN : UpdateCredentials(p, s)
    \/ \E p \in TtsProviderType : RemoveProvider(p)
    \/ \E p \in TtsProviderType : SetActiveStart(p)
    \/ SetActiveResume
    \/ \E p \in TtsProviderType : IsProviderConfigured(p)
    \/ \E p \in TtsProviderType : GetVoicesForProvider(p)
    \/ GetVoicesResume
    \/ \E p \in TtsProviderType : ValidateProvider(p)
    \/ \E ok \in BOOLEAN : DirectValidateDone(ok)
    \/ \E outcome \in DirectFetchOutcomes : DirectFetchDone(outcome)

SpecDirect == Init /\ [][NextDirect]_vars

\* ------------------------------------ chunk synthesis with retry (Google)

\* the error the catch block sees: the SYNTHESIS_ERROR thrown inside the try
\* when the response holds no audioContent, or the error axios rejected with
CaughtError(o) ==
    IF o.kind = "empty" THEN [status |-> 0, code |-> "SYNTHESIS_ERROR"]
    ELSE [status |-> o.status, code |-> o.code]

\* chunk retry mutant: auth errors are not singled out
IsAuthErrorNever(status) == FALSE

\* `status === 401 || status === 403`
IsAuthError(status) == status \in {401, 403}

\* shouldRetry
shouldRetry(attempt, status, code) ==
    /\ attempt < maxRetries
    /\ \/ status \in {429, 500, 502, 503, 504}
       \/ code \in {"ECONNRESET", "ETIMEDOUT", "ENOTFOUND"}

\* delayMs
delayMs(attempt) == Min(1000 * Pow2(attempt), 16000)

\* synthesizeChunkWithRetry(...): the loop is entered with attempt = 0 and
\* the first request is sent
SynthesizeChunk ==
    /\ chunk.phase \in {"idle", "audio", "failed"}
    /\ chunk' = [NoChunk EXCEPT !.phase = "request"]
    /\ UNCHANGED << mgrVars, costVars, provVars, priced, isTtsEnabled, speed,
                    gated >>

\* `await axios.post` settles: the audio is returned, or the catch block
\* throws, or it starts the delay before the next attempt
PostSettles(o) ==
    /\ chunk.phase = "request"
    /\ LET e == CaughtError(o)
           sent == [chunk EXCEPT !.requests = @ + 1]
       IN  chunk' =
             IF o.kind = "audio" THEN [sent EXCEPT !.phase = "audio"]
             ELSE IF IsAuthError(e.status)
                THEN [sent EXCEPT !.phase = "failed", !.error = "INVALID_API_KEY"]
             ELSE IF shouldRetry(chunk.attempt, e.status, e.code)
                THEN [sent EXCEPT !.phase = "delay",
                                  !.delays = Append(@, delayMs(chunk.attempt))]
             ELSE [sent EXCEPT !.phase = "failed", !.error = "SYNTHESIS_ERROR"]
    /\ UNCHANGED << mgrVars, costVars, provVars, priced, isTtsEnabled, speed,
                    gated >>

\* the setTimeout of the delay fires: `continue`, attempt++, and the loop
\* condition `attempt <= maxRetries` decides between the next request and
\* the throw after the loop
DelayElapsed ==
    /\ chunk.phase = "delay"
    /\ chunk' = IF chunk.attempt + 1 <= maxRetries
                   THEN [chunk EXCEPT !.attempt = @ + 1, !.phase = "request"]
                   ELSE [chunk EXCEPT !.attempt = @ + 1, !.phase = "failed",
                                      !.error = "SYNTHESIS_ERROR"]
    /\ UNCHANGED << mgrVars, costVars, provVars, priced, isTtsEnabled, speed,
                    gated >>

\* a request is answered and a timer fires
ChunkProgress == (\E o \in PostOutcomes : PostSettles(o)) \/ DelayElapsed

NextRetry ==
    \/ SynthesizeChunk
    \/ \E o \in PostOutcomes : PostSettles(o)
    \/ DelayElapsed

SpecRetry == Init /\ [][NextRetry]_vars /\ WF_vars(ChunkProgress)

\* --------------------------------------------------- tts.ts: playTts

\* setTtsEnabled(enabled)
SetTtsEnabled(enabled) ==
    /\ isTtsEnabled' = enabled
    /\ UNCHANGED << mgrVars, costVars, provVars, chunk, priced, speed, gated >>

\* setTtsSpeed(newSpeed)
SetTtsSpeed(newSpeed) ==
    /\ speed' = newSpeed
    /\ UNCHANGED << mgrVars, costVars, provVars, chunk, priced, isTtsEnabled,
                    gated >>

\* playTts mutant: the flag is not looked at
ReturnsAtGateNever(enabled) == FALSE

\* `if (!isTtsEnabled) return`
ReturnsAtGate(enabled) == ~enabled

\* `{ speed, ...options }`: the options object handed to manager.speak();
\* PlayTtsOptions holds callbacks only, neither a voice nor a speed
SpreadOptions(message) ==
    [ text |-> message, voice |-> NoVoice, speed |-> speed ]

\* playTts(message, options): it returns at the gate, or it awaits
\* manager.speak(message, { speed, ...options }) inside try/catch
PlayTts(message) ==
    IF ReturnsAtGate(isTtsEnabled)
       THEN /\ gated < MaxGated
            /\ gated' = gated + 1
            /\ UNCHANGED << mgrVars, costVars, provVars, chunk, priced,
                            isTtsEnabled, speed >>
       ELSE Speak(SpreadOptions(message), MaxReq)

\* the promise playTts() returned for the speak() call whose promise is in
\* state call: a rejection is caught and logged
PlayOutcome(call) == IF call = "rejected" THEN "resolved" ELSE call

\* stopTts()
StopTts == Stop

\* tts.ts over a manager that stays on the native provider
NextPlay ==
    \/ \E enabled \in BOOLEAN : SetTtsEnabled(enabled)
    \/ \E newSpeed \in {1, 2} : SetTtsSpeed(newSpeed)
    \/ \E message \in {"a", "b"} : PlayTts(message)
    \/ \E r \in ReqIds : PrimaryResolves(r)
    \/ \E r \in ReqIds : PrimaryRejects(r)
    \/ StopTts

SpecPlay == Init /\ [][NextPlay]_vars

\* =============================================================== claims

\* request ids of the entries of kind k in the dispatch history, in order
ReqsOfKind(log, k) ==
    LET F[i \in 0..Len(log)] ==
            IF i = 0 THEN << >>
            ELSE IF log[i].kind = k THEN Append(F[i-1], log[i].req)
                                    ELSE F[i-1]
    IN  F[Len(log)]

\* request ids of the queued items, in queue order
QueueReqs(q) == [i \in 1..Len(q) |-> q[i].req]

\* calls of speak() whose processQueue() activation is suspended on a
\* backend call
ActiveLoops == { r \in ReqIds : loops[r].phase # "none" }

\* the loop of call r starts provider.speak() for a newly shifted item in
\* this step
Dispatches(r) ==
    /\ loops'[r].phase = "primary"
    /\ \/ loops[r].phase = "none"
       \/ loops'[r].item.req # loops[r].item.req

\* C1: at most one drain loop runs, hence at most one backend speak call
\* dispatched by the manager is in flight
C1_SingleFlight == Cardinality(ActiveLoops) <= 1

\* C2: while stop() has not been called, the primary dispatches followed by
\* the queued items are exactly the requests in enqueue order (each request
\* is dispatched once, in FIFO order, none is lost), nothing stays queued
\* when no loop runs, and every dispatch goes to the active provider
C2_FifoExactlyOnce ==
    [][ /\ ReqsOfKind(dispatched', "primary") \o QueueReqs(queue') = enqueued'
        /\ (ActiveLoops' = {} => queue' = << >>)
        /\ \A r \in ReqIds :
              Dispatches(r) =>
                 /\ loops'[r].provider = activeProviderType'
                 /\ loops'[r].provider =
                       GetActiveProvider(activeProviderType, providers)
      ]_vars

\* C2 witness: request 2 was enqueued while request 1 was in flight and has
\* been dispatched by the same loop, request 3 is waiting in the queue
C2_Witness ==
    /\ nextReq = 3
    /\ \E r \in ReqIds : loops[r].phase = "primary" /\ loops[r].item.req = 2
    /\ ReqsOfKind(dispatched, "primary") = << 1, 2 >>
    /\ QueueReqs(queue) = << 3 >>

\* C3: when the active provider's speak() rejects and the active provider
\* is not native, native speak() is started for the same item, once per
\* item, and after the fallback call settles the loop dispatches the next
\* queued item
C3_FallbackOnce ==
    [][ \A r \in ReqIds :
          /\ ( /\ PrimaryRejects(r)
               /\ loops[r].provider = activeProviderType
               /\ activeProviderType # "native" )
             => /\ loops'[r] = InFlight("fallback", loops[r].item, "native")
                /\ dispatched' = Append(dispatched,
                                    DispatchRec(loops[r].item.req, "fallback"))
                /\ \A i \in 1..Len(dispatched) :
                      ~ ( dispatched[i].kind = "fallback"
                          /\ dispatched[i].req = loops[r].item.req )
          /\ ( /\ FallbackResolves(r) \/ FallbackRejects(r)
               /\ Len(queue) > 0 )
             => /\ loops'[r].phase = "primary"
                /\ loops'[r].item = Head(queue)
      ]_vars

\* C3 witness: request 1 was dispatched to a cloud provider, fell back to
\* native, and the loop went on to dispatch request 2
C3_Witness ==
    /\ activeProviderType # "native"
    /\ Len(dispatched) = 3
    /\ dispatched[1] = DispatchRec(1, "primary")
    /\ dispatched[2] = DispatchRec(1, "fallback")
    /\ dispatched[3] = DispatchRec(2, "primary")

\* C4: no speak() promise is ever rejected, and after a rejected backend
\* call that is not followed by a fallback, or a rejected fallback call, the
\* loop dispatches the next queued item
C4_NeverRejects ==
    [][ /\ \A r \in ReqIds : calls'[r] # "rejected"
        /\ \A r \in ReqIds :
              ( /\ \/ FallbackRejects(r)
                   \/ PrimaryRejects(r) /\ loops'[r].phase # "fallback"
                /\ Len(queue) > 0 )
              => /\ loops'[r].phase = "primary"
                 /\ loops'[r].item = Head(queue)
      ]_vars

\* C4 witness: the backend call of request 1 has rejected (a fallback was
\* started for it), the fallback has settled, the loop has dispatched
\* request 2 and the promise of the speak() that owns the loop is pending
C4_Witness ==
    /\ Len(dispatched) = 3
    /\ dispatched[1] = DispatchRec(1, "primary")
    /\ 1 \in settled
    /\ dispatched[2] = DispatchRec(1, "fallback")
    /\ dispatched[3] = DispatchRec(2, "primary")
    /\ calls[1] = "pending"

\* C5: a resolved speak() promise means the caller's own item has been
\* dispatched and its backend call has settled
C5_ResolvesAfterOwnItem ==
    \A r \in ReqIds : calls[r] = "resolved" => r \in settled

\* C6: the active provider type is a key of the providers map
C6_ActiveRegistered == activeProviderType \in providers

\* C7: native is registered in every state, and removeProvider("native")
\* changes neither the registry nor the active provider
C7_NativeKept ==
    [][ /\ "native" \in providers
        /\ "native" \in providers'
        /\ RemoveProvider("native")
              => UNCHANGED << providers, activeProviderType >>
      ]_vars

\* C7 witness: after requests were spoken, the active cloud provider was
\* removed with a request queued and the queue was stopped, native is the
\* only provider left and it is the active one
C7_Witness ==
    /\ providers = {"native"}
    /\ activeProviderType = "native"
    /\ nextReq = MaxReq
    /\ stops > 0
    /\ \E r \in ReqIds : loops[r].phase # "none" /\ loops[r].provider # "native"

\* C8: setActiveProvider never changes the active provider before its
\* await; a call that fails the lookup is rejected at once; after the await
\* the switch is committed exactly when isConfigured() returned true and the
\* call is rejected, with the active provider unchanged, otherwise
C8_FailedSwitch ==
    [][ /\ \A p \in TtsProviderType :
              SetActiveStart(p) =>
                 /\ activeProviderType' = activeProviderType
                 /\ (p \notin providers => switchCall'.pc = "rejected")
                 /\ (p \in providers => switchCall'.pc = "awaiting")
        /\ SetActiveResume =>
              IF switchCall.configured
                 THEN /\ switchCall'.pc = "resolved"
                      /\ activeProviderType' = switchCall.target
                 ELSE /\ switchCall'.pc = "rejected"
                      /\ activeProviderType' = activeProviderType
      ]_vars

\* C8 witness: a setActiveProvider() call has been rejected while a cloud
\* provider is the active one
C8_Witness ==
    /\ switchCall.pc = "rejected"
    /\ activeProviderType # "native"
    /\ activeProviderType \in providers

\* removeProvider(p) for a cloud provider deletes the entry and resets the
\* active provider when it was p
RemovalEffect ==
    \A p \in TtsProviderType \ {"native"} :
       RemoveProvider(p) =>
          /\ providers' = providers \ {p}
          /\ activeProviderType' =
                IF activeProviderType = p THEN "native" ELSE activeProviderType

\* C9 as stated: ... and every item that was queued when the active
\* provider was removed is dispatched to native
C9_OrphansToNative ==
    [][ /\ RemovalEffect
        /\ \A r \in ReqIds :
              ( Dispatches(r) /\ orphans[loops'[r].item.req] # "no" )
              => loops'[r].provider = "native"
      ]_vars

\* C9 amended: ... every item that was queued when the active provider was
\* removed is dispatched to the provider that is active at its dispatch,
\* which is registered at that moment, and which is native unless a
\* setActiveProvider() call has succeeded since the removal
C9_OrphansToActive ==
    [][ /\ RemovalEffect
        /\ \A r \in ReqIds :
              ( Dispatches(r) /\ orphans[loops'[r].item.req] # "no" )
              => /\ loops'[r].provider \in providers
                 /\ loops'[r].provider = activeProviderType'
                 /\ orphans[loops'[r].item.req] = "fresh"
                       => loops'[r].provider = "native"
      ]_vars

\* C9 witness: the active cloud provider was removed while a request was
\* queued; native is active and the request is still waiting
C9_Witness ==
    \E r \in ReqIds :
       /\ orphans[r] = "fresh"
       /\ r \in QueueIds(queue)
       /\ activeProviderType = "native"
       /\ providers # TtsProviderType

\* C10: stop() calls stop() on the provider getActiveProvider() returns
\* (every call in flight on it is ended, no other call is), and leaves the
\* queue empty and the flag false
C10_StopClears ==
    [][ Stop =>
          /\ queue' = << >>
          /\ isProcessing' = FALSE
          /\ activeProviderType' \in providers
          /\ \A r \in ReqIds :
                loops'[r].killed =
                   \/ loops[r].killed
                   \/ /\ loops[r].phase # "none"
                      /\ loops[r].provider = activeProviderType'
      ]_vars

\* C10 witness: stop() was called mid-drain: a call in flight was ended,
\* the queue is empty and the flag is false while that loop is suspended
C10_Witness ==
    /\ stops > 0
    /\ \E r \in ReqIds : loops[r].killed
    /\ queue = << >>
    /\ isProcessing = FALSE

\* nothing queued, the draining flag is down and no drain loop is executing
Idle ==
    /\ queue = << >>
    /\ isProcessing = FALSE
    /\ ActiveLoops = {}

\* C11: when stop() has been called and a drain loop is suspended on a
\* backend call, and in-flight backend calls eventually settle, the manager
\* reaches Idle
C11_StopReachesIdle == (stops > 0 /\ ActiveLoops # {}) ~> Idle

\* C11 witness: stop() was called while request 1 was in flight and request
\* 2 was queued; the call of request 1 has settled, request 2 was never
\* dispatched and the manager is idle
C11_Witness ==
    /\ stops > 0
    /\ enqueued = << 1, 2 >>
    /\ dispatched = << DispatchRec(1, "primary") >>
    /\ 1 \in settled
    /\ Idle

\* C12: after a successful setActiveProvider(id) the current voice is the
\* voice last selected for id, or no voice if none was selected for it
C12_SwitchRestoresVoice ==
    [][ SetActiveResume /\ switchCall'.pc = "resolved"
           => currentVoice' = lastSelected'[switchCall.target]
      ]_vars

\* C13: a voice id that the manager filled in (the caller gave none) is
\* passed only to the provider it was selected for, on the primary call and
\* on the fallback call
C13_NoVoiceLeak ==
    \A r \in ActiveLoops :
        loops[r].item.voice \in Voices
           => OwnerOf(loops[r].item.voice) = loops[r].provider

\* C14: after setVoice(v) both getVoice() and getVoiceForProvider(active)
\* return v
C14_SetVoiceStoresBoth ==
    [][ \A v \in Voices :
           SetVoice(v) => /\ currentVoice' = v
                          /\ GetVoiceForProvider(activeProviderType)' = v
      ]_vars

\* C15: setVoiceForProvider(p, v) stores v for p and for no other provider,
\* the current voice becomes v when p is the active provider and is left
\* alone otherwise, and the voice stored for a provider changes only when a
\* voice is set for it (a provider for which nothing was set has none)
C15_StoreForProviderOnly ==
    [][ /\ \A p \in TtsProviderType, v \in Voices :
              SetVoiceForProvider(p, v)
                 => /\ GetVoiceForProvider(p)' = v
                    /\ \A q \in TtsProviderType \ {p} :
                          GetVoiceForProvider(q)' = GetVoiceForProvider(q)
                    /\ p = activeProviderType => currentVoice' = v
                    /\ p # activeProviderType => currentVoice' = currentVoice
        /\ \A q \in TtsProviderType :
              GetVoiceForProvider(q)' # GetVoiceForProvider(q)
                 => \E v \in Voices :
                       \/ SetVoiceForProvider(q, v)
                       \/ SetVoice(v) /\ q = activeProviderType
      ]_vars

\* C15 witness: a voice is stored for native and another for google-cloud,
\* none for azure, and the current voice is the one of the active provider
C15_Witness ==
    /\ activeProviderType = "native"
    /\ GetVoiceForProvider("native") = VoiceOf["native"]
    /\ GetVoiceForProvider("google-cloud") = VoiceOf["google-cloud"]
    /\ GetVoiceForProvider("azure") = NoVoice
    /\ currentVoice = VoiceOf["native"]

\* the last cost call was priced under a classification without a hard cap:
\* a vendor-A model or vendor-B tier S0
NonHardCap ==
    \/ costDetails.fn = "calculateTtsCost"
    \/ costDetails.fn = "calculateAzureTtsCost" /\ costDetails.tier = "S0"

\* C16: for every classification without a hard cap the free and the paid
\* characters of a cost breakdown are non-negative and add up to the
\* characters used
C16_SplitExhaustive ==
    NonHardCap
       => /\ costDetails.result.charactersCostFree
                + costDetails.result.charactersCostPaid
             = costDetails.charactersUsed
          /\ costDetails.result.charactersCostFree >= 0
          /\ costDetails.result.charactersCostPaid >= 0

\* C16 witness: a vendor-A breakdown that is part free and part paid, priced
\* with prior usage above zero
C16_Witness ==
    /\ costDetails.fn = "calculateTtsCost"
    /\ costDetails.modelType = "studio"
    /\ costDetails.currentUsage > 0
    /\ costDetails.result.charactersCostFree > 0
    /\ costDetails.result.charactersCostPaid > 0

\* C17: tier F0 never bills: the cost and the paid characters are 0 and the
\* free characters are what is left of the 500,000 allowance, at most the
\* characters used
C17_HardCapNeverBills ==
    costDetails.fn = "calculateAzureTtsCost" /\ costDetails.tier = "F0"
       => /\ costDetails.result.cost = 0
          /\ costDetails.result.charactersCostPaid = 0
          /\ costDetails.result.charactersCostFree
                = Min(costDetails.charactersUsed,
                      Max(0, 500000 - costDetails.currentUsage))

\* C17 witness: an F0 call that crosses the allowance: some characters are
\* free, the others are counted neither as free nor as paid
C17_Witness ==
    /\ costDetails.fn = "calculateAzureTtsCost"
    /\ costDetails.tier = "F0"
    /\ costDetails.result.charactersCostFree > 0
    /\ costDetails.result.charactersCostFree < costDetails.charactersUsed
    /\ costDetails.result.charactersCostPaid = 0

\* the free allowance (characters) and the price (USD per million
\* characters) the claim lists per vendor-A model
C18_Table ==
    [ m \in GoogleCloudTtsModelType |->
        CASE m \in {"wavenet", "standard"} -> [free |-> 4000000, price |-> 4]
          [] m \in {"neural2", "polyglot"} -> [free |-> 1000000, price |-> 16]
          [] m = "studio"                  -> [free |-> 1000000, price |-> 160]
          [] m = "chirp3Hd"                -> [free |-> 1000000, price |-> 30]
          [] m = "instantCustom"           -> [free |-> 0, price |-> 60] ]

\* C18: calculateTtsCost returns the free characters min(c, max(0, free
\* allowance - u)), the rest as paid characters and the paid characters
\* times the price, with the allowances and prices of the table
C18_GoogleCostFormula ==
    costDetails.fn = "calculateTtsCost"
       => LET row  == C18_Table[costDetails.modelType]
              free == Min(costDetails.charactersUsed,
                          Max(0, row.free - costDetails.currentUsage))
          IN  /\ costDetails.result.charactersCostFree = free
              /\ costDetails.result.charactersCostPaid
                    = costDetails.charactersUsed - free
              /\ costDetails.result.cost
                    = (costDetails.charactersUsed - free) * row.price

\* C18 witness: calculateTtsCost("wavenet", 2,000,000, 3,000,000) has
\* returned 1,000,000 free, 1,000,000 paid and a cost of 4 USD
C18_Witness ==
    /\ costDetails.fn = "calculateTtsCost"
    /\ costDetails.modelType = "wavenet"
    /\ costDetails.charactersUsed = 2000000
    /\ costDetails.currentUsage = 3000000
    /\ costDetails.result.charactersCostFree = 1000000
    /\ costDetails.result.charactersCostPaid = 1000000
    /\ costDetails.result.cost = 4 * 1000000

\* the S0 price (USD per million characters) the claim lists per voice type
C19_Price ==
    [ t \in AzureTtsVoiceType |->
        CASE t = "neural" -> 15 [] t = "neuralHd" -> 30 [] t = "custom" -> 24 ]

\* C19: tier S0 bills every character whatever the prior usage: no free
\* characters, all characters paid, cost = characters times the price
C19_S0BillsAll ==
    costDetails.fn = "calculateAzureTtsCost" /\ costDetails.tier = "S0"
       => /\ costDetails.result.charactersCostFree = 0
          /\ costDetails.result.charactersCostPaid = costDetails.charactersUsed
          /\ costDetails.result.cost
                = costDetails.charactersUsed * C19_Price[costDetails.voiceType]

\* C19 witness: an S0 call for an HD voice with prior usage above zero has
\* billed 1,000,000 characters at 30 USD
C19_Witness ==
    /\ costDetails.fn = "calculateAzureTtsCost"
    /\ costDetails.tier = "S0"
    /\ costDetails.voiceType = "neuralHd"
    /\ costDetails.currentUsage > 0
    /\ costDetails.charactersUsed = 1000000
    /\ costDetails.result.cost = 30 * 1000000

\* the ledger is of the current month
CurrentPeriod(usage) ==
    usage.defined /\ usage.lastResetDate = YearMonth(now)

\* C20: within one month (and, for vendor B, one tier) every usage update
\* adds its amount to the counter it is for, so a sequence of updates
\* starting at counter k ends at k plus the sum of the amounts
C20_UsageAccumulates ==
    [][ /\ \A m \in GoogleCloudTtsModelType, a \in UsageAmounts :
              UpdateUsage(m, a) /\ CurrentPeriod(googleUsage)
                 => googleUsage'.usage[m] = googleUsage.usage[m] + a
        /\ \A tier \in AzureTtsTier, a \in UsageAmounts :
              /\ UpdateAzureUsage(tier, a)
              /\ CurrentPeriod(azureUsage)
              /\ azureUsage.tier = tier
              => azureUsage'.charactersUsed = azureUsage.charactersUsed + a
      ]_vars

\* C20 witness: in the month after the ledger was started, the updates 100
\* and 50 for one model have left its counter at 150
C20_Witness ==
    /\ CurrentPeriod(googleUsage)
    /\ months = 1
    /\ updates = 3
    /\ googleUsage.usage["wavenet"] = 150

\* C21: usage never carries across a month boundary: an update applied to an
\* absent ledger, or to a ledger of another month, returns a ledger of the
\* current month whose counter for the given model (for vendor B, whose
\* character count) is exactly the new amount and whose other counters are 0
C21_NoCarryOver ==
    [][ /\ \A m \in GoogleCloudTtsModelType, a \in UsageAmounts :
              UpdateUsage(m, a) /\ ~CurrentPeriod(googleUsage)
                 => /\ googleUsage'.lastResetDate = YearMonth(now)
                    /\ googleUsage'.usage[m] = a
                    /\ \A n \in GoogleCloudTtsModelType \ {m} :
                          googleUsage'.usage[n] = 0
        /\ \A tier \in AzureTtsTier, a \in UsageAmounts :
              UpdateAzureUsage(tier, a) /\ ~CurrentPeriod(azureUsage)
                 => /\ azureUsage'.lastResetDate = YearMonth(now)
                    /\ azureUsage'.charactersUsed = a
      ]_vars

\* C21 witness: the one ledger was updated twice, once in the month before
\* and once after the month ended; it is of the new month and holds the
\* second amount only
C21_Witness ==
    /\ months = 1
    /\ updates = 2
    /\ ~azureUsage.defined
    /\ lastUpdate.fn = "updateTtsUsage"
    /\ CurrentPeriod(googleUsage)
    /\ googleUsage.usage["wavenet"] = 50
    /\ \A n \in GoogleCloudTtsModelType \ {"wavenet"} : googleUsage.usage[n] = 0

\* C22: an updateAzureTtsUsage call whose tier differs from the tier stored
\* in the ledger resets instead of accumulating, even within the same month:
\* the returned ledger has the new tier and holds exactly the new amount
C22_TierChangeResets ==
    [][ \A tier \in AzureTtsTier, a \in UsageAmounts :
            /\ UpdateAzureUsage(tier, a)
            /\ azureUsage.defined
            /\ azureUsage.tier # tier
            => /\ azureUsage'.tier = tier
               /\ azureUsage'.charactersUsed = a
      ]_vars

\* C22 witness: within one month the one ledger was updated twice, the
\* second time for tier S0, and holds the second amount only: the first
\* update was for tier F0
C22_Witness ==
    /\ months = 0
    /\ updates = 2
    /\ ~googleUsage.defined
    /\ lastUpdate.fn = "updateAzureTtsUsage"
    /\ azureUsage.tier = "S0"
    /\ azureUsage.charactersUsed = 50

C24_OtherCountersKept ==
    [][ \A m \in GoogleCloudTtsModelType, a \in UsageAmounts :
            UpdateUsage(m, a) /\ CurrentPeriod(googleUsage)
               => \A n \in GoogleCloudTtsModelType \ {m} :
                     googleUsage'.usage[n] = googleUsage.usage[n]
      ]_vars

\* C24 witness: within one month the one ledger was updated for one model
\* and then for another, and holds both amounts
C24_Witness ==
    /\ months = 0
    /\ updates = 2
    /\ ~azureUsage.defined
    /\ lastUpdate.fn = "updateTtsUsage"
    /\ googleUsage.usage["wavenet"] = 100
    /\ googleUsage.usage["studio"] = 50

\* the letters, in upper and in lower case
UpperLetters ==
    << "A", "B", "C", "D", "E", "F", "G", "H", "I", "J", "K", "L", "M",
       "N", "O", "P", "Q", "R", "S", "T", "U", "V", "W", "X", "Y", "Z" >>

LowerLetters ==
    << "a", "b", "c", "d", "e", "f", "g", "h", "i", "j", "k", "l", "m",
       "n", "o", "p", "q", "r", "s", "t", "u", "v", "w", "x", "y", "z" >>

\* two characters are the same up to the case of a letter
SameLetter(a, b) ==
    \/ a = b
    \/ \E k \in 1..26 : {a, b} = {UpperLetters[k], LowerLetters[k]}

\* the name contains the marker, whatever the case of its letters
ContainsMarker(name, marker) ==
    \E i \in 1..Len(name) :
        /\ i + Len(marker) - 1 <= Len(name)
        /\ \A j \in 1..Len(marker) : SameLetter(name[i + j - 1], marker[j])

\* the markers of C25 in their fixed order, each with its bucket
C25_Markers ==
    << [ markers |-> { << "c", "h", "i", "r", "p", "3", "-", "h", "d" >>,
                       << "c", "h", "i", "r", "p", "3", "h", "d" >> },
         bucket |-> "chirp3Hd" ],
       [ markers |-> { << "w", "a", "v", "e", "n", "e", "t" >> },
         bucket |-> "wavenet" ],
       [ markers |-> { << "s", "t", "u", "d", "i", "o" >> },
         bucket |-> "studio" ],
       [ markers |-> { << "n", "e", "u", "r", "a", "l", "2" >> },
         bucket |-> "neural2" ],
       [ markers |-> { << "p", "o", "l", "y", "g", "l", "o", "t" >> },
         bucket |-> "polyglot" ],
       [ markers |-> { << "c", "u", "s", "t", "o", "m" >> },
         bucket |-> "instantCustom" ] >>

\* the positions of C25_Markers of which the name contains a marker
C25_Hits(name) ==
    { k \in 1..Len(C25_Markers) :
        \E marker \in C25_Markers[k].markers : ContainsMarker(name, marker) }

\* C25: detectModelTypeFromVoiceName returns the bucket of the first marker,
\* in the order chirp3-hd/chirp3hd, wavenet, studio, neural2, polyglot,
\* custom, that the name contains in any case of its letters, and "standard"
\* when it contains none; "en-US-Chirp3-HD-Achernar" and
\* "en-us-chirp3-hd-test" are both in the HD bucket
C25_FirstMarkerBucket ==
    detected.fn = "detectModelTypeFromVoiceName"
       => /\ detected.result =
                IF C25_Hits(detected.voiceName) = {}
                   THEN "standard"
                   ELSE C25_Markers[
                           CHOOSE k \in C25_Hits(detected.voiceName) :
                              \A h \in C25_Hits(detected.voiceName) : k <= h
                        ].bucket
          /\ detected.voiceName \in
                { << "e", "n", "-", "U", "S", "-", "C", "h", "i", "r",
                     "p", "3", "-", "H", "D", "-", "A", "c", "h", "e",
                     "r", "n", "a", "r" >>,
                  << "e", "n", "-", "u", "s", "-", "c", "h", "i", "r",
                     "p", "3", "-", "h", "d", "-", "t", "e", "s", "t" >> }
                => detected.result = "chirp3Hd"

\* C25 witness: a name written in capitals that contains the studio marker
\* before the custom marker was put in the studio bucket
C25_Witness ==
    /\ detected.fn = "detectModelTypeFromVoiceName"
    /\ detected.voiceName =
          << "e", "n", "-", "U", "S", "-", "S", "T", "U", "D",
             "I", "O", "-", "C", "u", "s", "t", "o", "m" >>
    /\ detected.result = "studio"

\* C26: detectAzureVoiceType returns neuralHd when the name contains "hd" or
\* "multilingual" in any case of its letters, else custom when it contains
\* "custom", else neural
C26_AzureVoiceType ==
    detected.fn = "detectAzureVoiceType"
       => detected.result =
             IF \/ ContainsMarker(detected.voiceName, << "h", "d" >>)
                \/ ContainsMarker(detected.voiceName,
                      << "m", "u", "l", "t", "i", "l", "i", "n", "g", "u",
                         "a", "l" >>)
                THEN "neuralHd"
             ELSE IF ContainsMarker(detected.voiceName,
                        << "c", "u", "s", "t", "o", "m" >>)
                THEN "custom"
             ELSE "neural"

\* C26 witness: a name that contains the custom marker before the HD marker
\* was classified as neuralHd
C26_Witness ==
    /\ detected.fn = "detectAzureVoiceType"
    /\ detected.voiceName =
          << "e", "n", "-", "U", "S", "-", "C", "u", "s", "t",
             "o", "m", "N", "e", "u", "r", "a", "l", "-", "S",
             "t", "u", "d", "i", "o", "-", "H", "D" >>
    /\ detected.result = "neuralHd"

\* the promise of the call has settled
Terminated(call) == call.phase \in {"resolved", "rejected"}

\* C27: for every backend, a speak call that invoked onStart has invoked
\* onStop exactly once by the time it has terminated (by success, by failure
\* or after a stop()); no call invokes onStop twice, and no call invokes
\* onStop without having invoked onStart
C27_OnStopExactlyOnce ==
    \A c \in CallIds :
        /\ pcall[c].onStop <= 1
        /\ pcall[c].onStart = 0 => pcall[c].onStop = 0
        /\ Terminated(pcall[c]) /\ pcall[c].onStart > 0 => pcall[c].onStop = 1

\* C28: for every backend, speak invokes onStart in the run of speak() up to
\* its first await, so a call suspended on the synthesis or on the playback,
\* and a call whose synthesis request has completed, has invoked onStart
C28_OnStartSynchronous ==
    [][ \A c \in CallIds :
          /\ pcall'[c].onStart > pcall[c].onStart => pcall[c].phase = "none"
          /\ pcall'[c].phase \in {"synth", "track", "play"}
                => pcall'[c].onStart > 0
      ]_vars

\* stop() of backend b has no effect when it is called again
C29_Idempotent ==
    \A b \in BackendImpl :
        stop(b, stop(b, ProviderState)) = stop(b, ProviderState)

\* stop() of backend b has no effect when no call of b is in progress
C29_NoEffectWhenIdle ==
    \A b \in BackendImpl :
        (\A c \in CallIds : pcall[c].backend = b => ~InProgress(pcall[c]))
           => stop(b, ProviderState) = ProviderState

\* C29: stop() of a backend is idempotent (a second call changes no field
\* and invokes no hook), has no effect when nothing is in progress, and when
\* it is called while a call with an outstanding onStop is in progress, that
\* call's onStop is eventually invoked
C29_StopIdempotentAndFinal ==
    /\ [](C29_Idempotent /\ C29_NoEffectWhenIdle)
    /\ \A c \in CallIds : (c \in stopSeen) ~> (pcall[c].onStop > 0)

\* C30: once a fetch of a backend has succeeded, every later getVoices()
\* call returns the fetched list from the cache and fetches nothing, until
\* the credentials are updated; a credential update empties the cache, and
\* the next getVoices() call fetches
C30_VoiceCache ==
    [][ \A b \in BackendImpl :
          /\ GetVoices(b) /\ lastFetched[b].ok
                => /\ ~lastVoices'.fetch
                   /\ lastVoices'.result = lastFetched[b].list
          /\ SetCredentials(b) => cachedVoices'[b] = << >>
          /\ GetVoices(b) /\ updatedSince[b] => lastVoices'.fetch
      ]_vars

\* C31: updateCredentials is an idempotent upsert: with sufficient
\* credentials the provider is in the map afterwards, and if it was there
\* before the map keeps its entries and the instance keeps its requests in
\* flight; applied twice it gives the registry it gives applied once; with
\* insufficient credentials or for the native provider the registry is
\* unchanged; a call leaves the active provider and the queue as they were
C31_IdempotentUpsert ==
    [][ \A p \in TtsProviderType, s \in BOOLEAN :
          UpdateCredentials(p, s)
             => /\ (p = "native" \/ ~s) => RegistryState' = RegistryState
                /\ (p # "native" /\ s)
                      => /\ p \in providers'
                         /\ hasKey'[p]
                         /\ p \in providers
                               => /\ providers' = providers
                                  /\ fetching' = fetching
                /\ updateCredentials(RegistryState', p, s) = RegistryState'
                /\ activeProviderType' = activeProviderType
                /\ queue' = queue ]_vars

\* C31 witness: getVoicesForProvider("google-cloud") had resolved, leaving
\* the list cached, and the cache of the registered provider is empty again:
\* updateCredentials ran with sufficient credentials, while the provider was
\* active and a request was queued
C31_Witness ==
    /\ direct.fn = "getVoicesForProvider"
    /\ direct.p = "google-cloud"
    /\ direct.phase = "resolved"
    /\ ~direct.detached
    /\ "google-cloud" \in providers
    /\ cachedVoices["google-cloud"] = << >>
    /\ activeProviderType = "google-cloud"
    /\ Len(queue) > 0

\* the fields of the manager
ManagerFields == << providers, hasKey, activeProviderType, currentVoice, queue,
                    isProcessing >>

\* C32: a direct call for a provider type that is not in the map fails to
\* the caller and leaves the manager as it was: getVoicesForProvider() fails
\* when the provider is not registered or its isConfigured() gave false,
\* validateProvider() fails when it is not registered and fails when the
\* validation of the backend fails, isProviderConfigured() returns false when
\* it is not registered
C32_DirectCallsFail ==
    [][ /\ \A p \in TtsProviderType :
              GetVoicesForProvider(p) /\ p \notin providers
                 => direct'.phase \in DirectFailed /\ UNCHANGED ManagerFields
        /\ GetVoicesResume /\ direct.phase = "unconfigured"
              => direct'.phase \in DirectFailed /\ UNCHANGED ManagerFields
        /\ \A p \in TtsProviderType :
              ValidateProvider(p) /\ p \notin providers
                 => direct'.phase \in DirectFailed /\ UNCHANGED ManagerFields
        /\ DirectValidateDone(FALSE) => direct'.phase \in DirectFailed
        /\ \A outcome \in DirectFetchOutcomes :
              /\ DirectFetchDone(outcome)
              /\ direct.fn = "validateProvider"
              /\ ~outcome.ok
              => direct'.phase \in DirectFailed
        /\ \A p \in TtsProviderType :
              IsProviderConfigured(p) /\ p \notin providers
                 => direct'.phase = "false" /\ UNCHANGED ManagerFields
      ]_vars

\* C32 witness: validateProvider("azure") has failed because no Azure
\* provider is registered, while the Google provider is the active one
C32_Witness ==
    /\ direct.fn = "validateProvider"
    /\ direct.p = "azure"
    /\ direct.phase = "unregistered"
    /\ "azure" \notin providers
    /\ activeProviderType = "google-cloud"

\* the step appends a fallback dispatch of request q to the dispatch history
FallbackStarted(q) ==
    /\ Len(dispatched') = Len(dispatched) + 1
    /\ dispatched'[Len(dispatched')] = DispatchRec(q, "fallback")

\* C33: when the speak() of the provider an item was dispatched to rejects,
\* the native provider is invoked as fallback if and only if that provider
\* was not the native one, whatever the active provider is by then; so the
\* native provider is never invoked twice for one item
C33_FallbackByDispatched ==
    [][ \A r \in ReqIds :
          PrimaryRejects(r)
             => (FallbackStarted(loops[r].item.req)
                    <=> loops[r].provider # "native") ]_vars

\* the step appends a dispatch of request q to the dispatch history
DispatchStarted(q) ==
    /\ Len(dispatched') = Len(dispatched) + 1
    /\ dispatched'[Len(dispatched')].req = q

\* C34: stop() is a hard cancel: it leaves no request in the queue, and no
\* backend call, primary or fallback, is started afterwards for the request
\* that was in flight on the active provider when stop() was called
C34_StopIsHardCancel ==
    [][ /\ Stop => queue' = << >>
        /\ \A r \in ReqIds :
              loops[r].phase # "none" /\ loops[r].killed
                 => ~DispatchStarted(loops[r].item.req) ]_vars

\* C35: no queued request is stranded: while isProcessing is set a drain
\* loop is executing, the queue is never non-empty with no drain loop
\* executing, and, when in-flight backend calls eventually settle, every
\* queued request eventually leaves the queue, shifted by a drain loop for
\* dispatch or discarded by stop()
C35_NoRequestStranded ==
    /\ [](isProcessing => ActiveLoops # {})
    /\ [](Len(queue) > 0 => ActiveLoops # {})
    /\ \A q \in ReqIds : (q \in QueueIds(queue)) ~> (q \notin QueueIds(queue))

\* C35 witness: request 2 was queued while request 1 was in flight, no
\* stop() was called, and request 2 has been dispatched in its turn
C35_Witness ==
    /\ stops = 0
    /\ enqueued = << 1, 2 >>
    /\ dispatched = << DispatchRec(1, "primary"), DispatchRec(2, "primary") >>
    /\ 1 \in settled
    /\ queue = << >>
    /\ calls[2] = "resolved"

\* the delays before retry number 0, 1, 2, 3, 4 in milliseconds
C36_Delays == << 1000, 2000, 4000, 8000, 16000 >>

\* C36: chunk synthesis with retry terminates. A chunk is requested at most
\* six times; a 401 or 403 fails it at once with INVALID_API_KEY; a delay
\* is started only after status 429, 500, 502, 503, 504 or the code
\* ECONNRESET, ETIMEDOUT, ENOTFOUND, and the delays waited are 1000, 2000,
\* 4000, 8000, 16000 ms in this order; any other error fails the chunk with
\* no further request; a call waiting for a response or a timer ends.
C36_RetryTerminates ==
    /\ [](/\ chunk.requests <= 6
          /\ Len(chunk.delays) <= 5
          /\ chunk.delays = SubSeq(C36_Delays, 1, Len(chunk.delays))
          /\ chunk.phase \in {"request", "delay"} => chunk.requests = Len(chunk.delays))
    /\ [][ \A o \in PostOutcomes : PostSettles(o) =>
             /\ chunk'.requests = chunk.requests + 1
             /\ (o.kind = "audio") <=> (chunk'.phase = "audio")
             /\ (o.kind = "error" /\ o.status \in {401, 403})
                   => chunk'.phase = "failed" /\ chunk'.error = "INVALID_API_KEY"
             /\ chunk'.phase = "delay"
                   => /\ o.kind = "error"
                      /\ \/ o.status \in {429, 500, 502, 503, 504}
                         \/ o.code \in {"ECONNRESET", "ETIMEDOUT", "ENOTFOUND"}
             /\ (o.kind = "empty"
                 \/ (o.kind = "error"
                     /\ o.status \notin {401, 403, 429, 500, 502, 503, 504}
                     /\ o.code \notin {"ECONNRESET", "ETIMEDOUT", "ENOTFOUND"}))
                   => chunk'.phase = "failed" /\ chunk'.error = "SYNTHESIS_ERROR" ]_vars
    /\ [][ chunk.phase = "failed" /\ chunk'.phase # "failed"
              => chunk'.requests = 0 ]_vars
    /\ (chunk.phase \in {"request", "delay"}) ~> (chunk.phase \in {"audio", "failed"})

\* five retryable failures were each followed by their delay and the sixth
\* request failed as well
C36_Witness ==
    /\ chunk.requests = 6
    /\ chunk.delays = C36_Delays
    /\ chunk.phase = "failed"
    /\ chunk.error = "SYNTHESIS_ERROR"

\* C37: in trackCost the cost breakdown is the one computed with the usage
\* the updated ledger held before the synthesis was added, that is with
\* prior usage 0 when the stored ledger is from an earlier month or from
\* another tier.
C37_CostUsesLedgerAfterReset ==
    [][ \A tier \in AzureTtsTier, t \in AzureTtsVoiceType, c \in TrackCounts :
          TrackCost(tier, t, c)
             => costDetails'.result =
                   calculateAzureTtsCost(tier, t, c,
                                         azureUsage'.charactersUsed - c) ]_vars

\* two requests of one model priced one after the other
C38_Split == Len(priced) = 2

\* the same characters priced in one call at the usage of the first request
C38_OneCall ==
    calculateTtsCost(priced[1].modelType,
                     priced[1].charactersUsed + priced[2].charactersUsed,
                     priced[1].currentUsage)

\* C38 as stated: pricing c1 at usage u and then c2 at the updated usage
\* yields the same total of free characters, of paid characters and of
\* cost as pricing c1 + c2 at usage u in one call.
C38_SplitIndependent ==
    C38_Split =>
       /\ priced[1].result.charactersCostFree + priced[2].result.charactersCostFree
             = C38_OneCall.charactersCostFree
       /\ priced[1].result.charactersCostPaid + priced[2].result.charactersCostPaid
             = C38_OneCall.charactersCostPaid
       /\ DoublePlus(priced[1].cost, priced[2].cost)
             = costOf(priced[1].modelType, C38_OneCall.charactersCostPaid)

\* C38 amended: the totals of free and of paid characters are those of the
\* one call; the total cost is that of the one call when at most one of the
\* two requests has paid characters.
C38_SplitIndependentCounts ==
    C38_Split =>
       /\ priced[1].result.charactersCostFree + priced[2].result.charactersCostFree
             = C38_OneCall.charactersCostFree
       /\ priced[1].result.charactersCostPaid + priced[2].result.charactersCostPaid
             = C38_OneCall.charactersCostPaid
       /\ (priced[1].result.charactersCostPaid = 0
           \/ priced[2].result.charactersCostPaid = 0)
             => DoublePlus(priced[1].cost, priced[2].cost)
                   = costOf(priced[1].modelType, C38_OneCall.charactersCostPaid)

\* the free allowance ran out within the second of two requests
C38_Witness ==
    /\ C38_Split
    /\ priced[1].result.charactersCostFree > 0
    /\ priced[1].result.charactersCostPaid = 0
    /\ priced[2].result.charactersCostFree > 0
    /\ priced[2].result.charactersCostPaid > 0

C40_Items ==
    { queue[i] : i \in 1..Len(queue) }
       \cup { loops[r].item : r \in { x \in ReqIds : loops[x].phase # "none" } }

\* what speak(in.text, options) fixes for its request
C40_Fixed(in) ==
    [ req |-> nextReq + 1, text |-> in.text,
      voice |-> IF in.voice = NoVoice THEN currentVoice ELSE in.voice,
      speed |-> in.speed ]

====
